---- MODULE Spec2Model ----
(***************************************************************************)
(* A model of owl, a personal-machine configuration applier: the package   *)
(* planner and the persisted PackageState (core/package.rs, core/state.rs),*)
(* the apply and adopt commands (commands/apply/*.rs, commands/adopt.rs),  *)
(* the layered configuration loader (core/config/loader.rs) and the two    *)
(* dotfile engines (domain/dotfiles.rs and core/dotfiles.rs).              *)
(***************************************************************************)
EXTENDS Integers, Sequences, FiniteSets, TLC

(***************************************************************************)
(* Names.  Package names and package-group names are the two namespaces of *)
(* the package manager: `-Qq` lists installed packages, `-Sg` lists the    *)
(* members of a group of the sync database.                                *)
(***************************************************************************)
Pkgs == {"bash", "vim"}

GroupNames == {"grp"}

Names == Pkgs \cup GroupNames

\* The alphabetical order of the names, used by Vec::sort and to fix the
\* iteration order of hash sets.
NameOrder == <<"bash", "grp", "vim">>

Rank(n) == CHOOSE i \in 1..Len(NameOrder) : NameOrder[i] = n

\* The sync database: the members `pacman -Sg <name>` prints for a group.
SyncGroups == [g \in GroupNames |-> {"bash", "vim"}]

(***************************************************************************)
(* Sequence helpers (Vec<String>).                                         *)
(***************************************************************************)
Range(s) == {s[i] : i \in 1..Len(s)}

Contains(s, x) == \E i \in 1..Len(s) : s[i] = x

RECURSIVE Retain(_, _)
\* Vec::retain(|p| p != x)
Retain(s, x) ==
    IF s = <<>> THEN <<>>
    ELSE IF Head(s) = x THEN Retain(Tail(s), x)
         ELSE <<Head(s)>> \o Retain(Tail(s), x)

RECURSIVE InsertSorted(_, _)
InsertSorted(s, x) ==
    IF s = <<>> THEN <<x>>
    ELSE IF Rank(x) < Rank(Head(s)) THEN <<x>> \o s
         ELSE <<Head(s)>> \o InsertSorted(Tail(s), x)

RECURSIVE SortNames(_)
\* Vec::sort on names
SortNames(s) == IF s = <<>> THEN <<>> ELSE InsertSorted(SortNames(Tail(s)), Head(s))

RECURSIVE SetToSeq(_)
\* The elements of a set, each once, in the iteration order of the model.
SetToSeq(S) ==
    IF S = {} THEN <<>>
    ELSE LET x == CHOOSE y \in S : \A z \in S : Rank(y) <= Rank(z)
         IN  <<x>> \o SetToSeq(S \ {x})

(***************************************************************************)
(* PackageState (core/state.rs).                                           *)
(***************************************************************************)
\* default_untracked_packages(): the names of the model that the baked-in
\* list holds.
default_untracked_packages == <<"bash">>

is_untracked(state, package) == Contains(state.untracked, package)

is_managed(state, package) == Contains(state.managed, package)

add_managed(state, package) ==
    IF ~Contains(state.managed, package)
    THEN [state EXCEPT !.managed = SortNames(Append(state.managed, package))]
    ELSE state

remove_managed(state, package) ==
    [state EXCEPT !.managed = Retain(state.managed, package)]

\* A state file: absent, or holding a list.
NoFile == [exists |-> FALSE, data |-> <<>>]

FileOf(data) == [exists |-> TRUE, data |-> data]

\* StatePersistence::load for one file: an absent file is created with the
\* default value.
LoadFile(file, default) == IF file.exists THEN file.data ELSE default

LoadFileDisk(file, default) == IF file.exists THEN file ELSE FileOf(default)

\* PackageState::load: the value read, and the disk after the read.
PackageState_load(d) ==
    [untracked |-> LoadFile(d.untracked, default_untracked_packages),
     hidden    |-> LoadFile(d.hidden, <<>>),
     managed   |-> LoadFile(d.managed, <<>>)]

PackageState_load_disk(d) ==
    [untracked |-> LoadFileDisk(d.untracked, default_untracked_packages),
     hidden    |-> LoadFileDisk(d.hidden, <<>>),
     managed   |-> LoadFileDisk(d.managed, <<>>)]

\* PackageState::save writes the three files.
PackageState_save(state) ==
    [untracked |-> FileOf(state.untracked),
     hidden    |-> FileOf(state.hidden),
     managed   |-> FileOf(state.managed)]

(***************************************************************************)
(* Package queries and the planner (core/package.rs, core/pm.rs).          *)
(* `installed` is the installed set the process holds in INSTALLED_CACHE.  *)
(***************************************************************************)
is_package_group(name) == name \in GroupNames

get_group_packages(name) == SyncGroups[name]

\* A query that finds every package installed.
is_package_installed_always(installed, name) == TRUE

is_package_installed(installed, name) == name \in installed

is_package_or_group_installed(installed, name) ==
    IF is_package_installed(installed, name) THEN TRUE
    ELSE IF is_package_group(name)
         THEN IF get_group_packages(name) = {} THEN FALSE
              ELSE \A pkg \in get_group_packages(name) : pkg \in installed
         ELSE FALSE

Install(name) == [kind |-> "Install", name |-> name]

Remove(name) == [kind |-> "Remove", name |-> name]

InstallsOf(names) == [i \in 1..Len(names) |-> Install(names[i])]

RemovesOf(names) == [i \in 1..Len(names) |-> Remove(names[i])]

\* A planner that removes every installed name that is not desired, managed
\* or not.
plan_package_actions_unmanaged(desired, state, installed) ==
    InstallsOf(SetToSeq({p \in desired :
                            ~is_package_or_group_installed(installed, p)}))
    \o RemovesOf(SetToSeq({p \in installed : p \notin desired}))

\* A planner without the two filters: it installs every desired name and
\* removes every installed name that is managed.
plan_package_actions_unchecked(desired, state, installed) ==
    InstallsOf(SetToSeq(desired))
    \o RemovesOf(SetToSeq({p \in installed : is_managed(state, p)}))

\* The Vec of actions: one Install per desired name that is not installed,
\* then one Remove per installed name that is neither desired nor unmanaged.
plan_package_actions(desired, state, installed) ==
    InstallsOf(SetToSeq({p \in desired :
                            ~is_package_or_group_installed(installed, p)}))
    \o RemovesOf(SetToSeq({p \in installed :
                            p \notin desired /\ is_managed(state, p)}))

(***************************************************************************)
(* The filesystem seen by the dotfile engines.  A node is missing, a       *)
(* regular file (bytes and modification time) or a directory (the regular  *)
(* files under it, by relative path).                                      *)
(***************************************************************************)
MaxFileLen == 1

MaxTime == 2

Bytes == {0, 1}

RECURSIVE SeqsUpTo(_, _)
SeqsUpTo(S, n) ==
    IF n = 0 THEN {<<>>}
    ELSE LET shorter == SeqsUpTo(S, n - 1)
         IN  shorter \cup {Append(s, x) : s \in shorter, x \in S}

Contents == SeqsUpTo(Bytes, MaxFileLen)

RelNames == {"x", "y"}

NoNode == [kind |-> "none", bytes |-> <<>>, mtime |-> 0, files |-> {}]

FileNode(bytes, mtime) ==
    [kind |-> "file", bytes |-> bytes, mtime |-> mtime, files |-> {}]

\* files: a set of [rel, bytes] records, one per regular file under the
\* directory.
DirNode(files) == [kind |-> "dir", bytes |-> <<>>, mtime |-> 0, files |-> files]

\* The modification time a write gives a file: later than every file the
\* run found.
Now == MaxTime + 1

exists(node) == node.kind # "none"

is_dir(node) == node.kind = "dir"

is_file(node) == node.kind = "file"

DotfileAction(m, status, reason) ==
    [source |-> m.source, destination |-> m.destination,
     status |-> status, reason |-> reason]

(***************************************************************************)
(* domain/dotfiles.rs                                                      *)
(***************************************************************************)
EmptyHash == [empty |-> TRUE, of |-> {}]

\* SHA-256 of a byte string or of the joined entry list of a directory:
\* equal digests exactly for equal inputs.
Sha256(data) == [empty |-> FALSE, of |-> {data}]

hash_file(node) == IF ~exists(node) \/ ~is_file(node) THEN EmptyHash
                   ELSE Sha256(node.bytes)

files_differ_quick(src, dest) ==
    IF Len(src.bytes) # Len(dest.bytes) THEN TRUE
    ELSE IF src.mtime = dest.mtime THEN FALSE
    ELSE IF hash_file(src).empty \/ hash_file(dest).empty THEN TRUE
    ELSE hash_file(src) # hash_file(dest)

hash_directory(node) ==
    IF ~exists(node) \/ ~is_dir(node) THEN EmptyHash
    ELSE Sha256({<<f.rel, Sha256(f.bytes)>> : f \in node.files})

hash_path(node) ==
    IF ~exists(node) THEN EmptyHash
    ELSE IF is_dir(node) THEN hash_directory(node)
    ELSE hash_file(node)

\* The body of the loop of analyze_dotfiles: the action of one mapping.
analyze_mapping(fs, m) ==
    LET source_path == fs[m.source]
        dest_path   == fs[m.destination]
    IN  IF ~exists(source_path)
        THEN DotfileAction(m, "Conflict", "source file not found")
        ELSE IF ~exists(dest_path)
        THEN DotfileAction(m, "Create", "")
        ELSE IF is_dir(source_path) /\ ~is_dir(dest_path)
        THEN DotfileAction(m, "Conflict", "destination is file, source is directory")
        ELSE IF ~is_dir(source_path) /\ is_dir(dest_path)
        THEN DotfileAction(m, "Conflict", "destination is directory, source is file")
        ELSE IF ~is_dir(source_path)
        THEN IF files_differ_quick(source_path, dest_path)
             THEN DotfileAction(m, "Update", "")
             ELSE DotfileAction(m, "UpToDate", "content matches")
        ELSE IF hash_path(source_path).empty \/ hash_path(dest_path).empty
        THEN DotfileAction(m, "Conflict", "failed to calculate hash")
        ELSE IF hash_path(source_path) # hash_path(dest_path)
        THEN DotfileAction(m, "Update", "")
        ELSE DotfileAction(m, "UpToDate", "content matches")

analyze_dotfiles(fs, mappings) ==
    [i \in 1..Len(mappings) |-> analyze_mapping(fs, mappings[i])]

\* copy_path: the destination is removed, then the source is copied.
copy_path(fs, src, dest) ==
    IF is_dir(fs[src])
    THEN [fs EXCEPT ![dest] = DirNode(fs[src].files)]
    ELSE [fs EXCEPT ![dest] = FileNode(fs[src].bytes, Now)]

RECURSIVE domain_apply_from(_, _, _)
\* The copy loop of apply_dotfiles over the analysed actions, from index i:
\* the filesystem after it.
domain_apply_from(fs, actions, i) ==
    IF i > Len(actions) THEN fs
    ELSE IF actions[i].status \in {"Conflict", "UpToDate", "Skip"}
         THEN domain_apply_from(fs, actions, i + 1)
         ELSE domain_apply_from(
                  copy_path(fs, actions[i].source, actions[i].destination),
                  actions, i + 1)

\* domain apply_dotfiles: the returned actions and the filesystem left.
domain_apply_dotfiles(fs, mappings, dry_run) ==
    LET actions == analyze_dotfiles(fs, mappings)
    IN  IF dry_run THEN [ok |-> TRUE, actions |-> actions, fs |-> fs]
        ELSE [ok |-> TRUE, actions |-> actions,
              fs |-> domain_apply_from(fs, actions, 1)]

domain_has_actionable_dotfiles(fs, mappings) ==
    \E i \in 1..Len(mappings) :
        analyze_dotfiles(fs, mappings)[i].status \in {"Create", "Update", "Conflict"}

(***************************************************************************)
(* core/dotfiles.rs, the engine the apply command calls.  Its statuses are *)
(* Create, Update and UpToDate; an I/O error ends the call with Err.       *)
(***************************************************************************)
\* fs::read succeeds on a regular file only.
CanRead(node) == is_file(node)

HasFile(node, rel) == \E f \in node.files : f.rel = rel

dirs_in_sync(src, dst) ==
    IF ~exists(dst) \/ ~is_dir(dst) THEN FALSE
    ELSE \A f \in src.files :
            \E g \in dst.files : g.rel = f.rel /\ Sha256(g.bytes) = Sha256(f.bytes)

\* copy_dir_all: None when a write fails (the destination is a regular
\* file and the source holds a file to write under it).
copy_dir_all_ok(src, dst) == ~(is_file(dst) /\ src.files # {})

copy_dir_all(src, dst) ==
    IF is_file(dst) THEN dst
    ELSE DirNode(src.files \cup {g \in dst.files : ~HasFile(src, g.rel)})

\* The status expression of apply_dotfiles for one mapping: "Err" when a
\* hash cannot be computed.
core_status(src, dst) ==
    IF is_dir(src)
    THEN IF ~exists(dst) THEN "Create"
         ELSE IF dirs_in_sync(src, dst) THEN "UpToDate"
         ELSE "Update"
    ELSE IF ~exists(dst) THEN "Create"
         ELSE IF ~CanRead(src) \/ ~CanRead(dst) THEN "Err"
         ELSE IF Sha256(src.bytes) = Sha256(dst.bytes) THEN "UpToDate"
         ELSE "Update"

\* The write of apply_dotfiles for one mapping succeeds.
core_write_ok(src, dst) ==
    IF is_dir(src) THEN copy_dir_all_ok(src, dst)
    ELSE CanRead(src) /\ ~is_dir(dst)

core_write(src, dst) ==
    IF is_dir(src) THEN copy_dir_all(src, dst)
    ELSE FileNode(src.bytes, Now)

RECURSIVE core_apply_from(_, _, _, _, _)
\* The loop of apply_dotfiles from mapping i, with the actions pushed so
\* far: Ok(actions) or Err, and the filesystem left.
core_apply_from(fs, mappings, dry_run, i, actions) ==
    IF i > Len(mappings) THEN [ok |-> TRUE, actions |-> actions, fs |-> fs]
    ELSE LET m      == mappings[i]
             src    == fs[m.source]
             dst    == fs[m.destination]
             status == core_status(src, dst)
         IN  IF status = "Err"
             THEN [ok |-> FALSE, actions |-> <<>>, fs |-> fs]
             ELSE IF dry_run
             THEN core_apply_from(fs, mappings, dry_run, i + 1,
                                  Append(actions, DotfileAction(m, status, "")))
             ELSE IF ~core_write_ok(src, dst)
             THEN [ok |-> FALSE, actions |-> <<>>, fs |-> fs]
             ELSE core_apply_from(
                      [fs EXCEPT ![m.destination] = core_write(src, dst)],
                      mappings, dry_run, i + 1,
                      Append(actions, DotfileAction(m, status, "")))

core_apply_dotfiles(fs, mappings, dry_run) ==
    core_apply_from(fs, mappings, dry_run, 1, <<>>)

RECURSIVE core_has_actionable_from(_, _, _)
\* has_actionable_dotfiles from mapping i: "true", "false" or "Err".
core_has_actionable_from(fs, mappings, i) ==
    IF i > Len(mappings) THEN "false"
    ELSE LET src == fs[mappings[i].source]
             dst == fs[mappings[i].destination]
         IN  IF ~exists(src) THEN core_has_actionable_from(fs, mappings, i + 1)
             ELSE IF is_dir(src)
             THEN IF ~dirs_in_sync(src, dst) THEN "true"
                  ELSE core_has_actionable_from(fs, mappings, i + 1)
             ELSE IF ~exists(dst) THEN "true"
             ELSE IF ~CanRead(dst) THEN "Err"
             ELSE IF Sha256(src.bytes) # Sha256(dst.bytes) THEN "true"
             ELSE core_has_actionable_from(fs, mappings, i + 1)

core_has_actionable_dotfiles(fs, mappings) ==
    core_has_actionable_from(fs, mappings, 1)

(***************************************************************************)
(* The configuration documents and the load chain                          *)
(* (core/config/mod.rs, core/config/loader.rs, core/config/parser.rs).     *)
(***************************************************************************)
\* The group documents of the groups directory, by group name.
CfgGroups == {"core", "dev"}

DocNames == {"main", "host"} \cup CfgGroups

\* The longest list of @group lines a group document of the model holds.
MaxRefs == 2

\* The longest list of @group lines the main and the host document of the
\* model hold.
MaxTopRefs == 1

\* The most times the model follows the parsing of one group file.
MaxParses == 2

EmptyMap == [x \in {} |-> {}]

\* Config::new()
Config_new == [packages |-> EmptyMap, groups |-> <<>>, env_vars |-> EmptyMap]

\* The one package and the one global variable the documents of the model
\* may declare.  Each document attaches its own directives to the package
\* and its own value to the variable, so that the document an entry came
\* from, and any mixing of two entries, shows in the merged Config.
DocPackage == "fish"

DocEnvKey == "EDITOR"

PackageIn(d) ==
    IF d = "main" THEN [config |-> <<>>, service |-> "sshd", env_vars |-> EmptyMap]
    ELSE IF d = "host" THEN [config |-> <<"fish -> ~/.config/fish">>,
                             service |-> "", env_vars |-> EmptyMap]
    ELSE [config |-> <<d>>, service |-> d, env_vars |-> EmptyMap]

\* What Config::parse returns for the text of document d that declares the
\* package and the variable (declares) and holds the @group lines refs:
\* parse_group_declaration pushes every @group line, repeated or not.
ParsedDoc(d, declares, refs) ==
    [packages |-> IF declares THEN [x \in {DocPackage} |-> PackageIn(d)]
                  ELSE EmptyMap,
     groups   |-> refs,
     env_vars |-> IF declares THEN [x \in {DocEnvKey} |-> d] ELSE EmptyMap]

\* A document file: absent, unreadable (bad: read_to_string fails), or
\* readable with its parsed content.
AbsentDoc == [status |-> "absent", config |-> Config_new]

BadDoc == [status |-> "bad", config |-> Config_new]

OkDoc(config) == [status |-> "ok", config |-> config]

\* A parse_file that returns the empty Config for a file it cannot read.
parse_file_lenient(file) == [ok |-> TRUE, config |-> file.config]

\* Config::parse_file: Err when the file cannot be read, else the parsed
\* Config.
parse_file(file) ==
    IF file.status = "bad" THEN [ok |-> FALSE, config |-> Config_new]
    ELSE [ok |-> TRUE, config |-> file.config]

\* An insertion that replaces the entry the map already holds.
InsertAll(self, other) ==
    [k \in DOMAIN self \cup DOMAIN other |->
        IF k \in DOMAIN other THEN other[k] ELSE self[k]]

\* Map::entry(k).or_insert(v) for every (k, v) of other.
OrInsertAll(self, other) ==
    [k \in DOMAIN self \cup DOMAIN other |->
        IF k \in DOMAIN self THEN self[k] ELSE other[k]]

\* for group in other: self.push(group)
PushAll(self, other) == self \o other

RECURSIVE PushNew(_, _)
\* for group in other: if !self.contains(group) { self.push(group) }
PushNew(self, other) ==
    IF other = <<>> THEN self
    ELSE IF Contains(self, Head(other)) THEN PushNew(self, Tail(other))
         ELSE PushNew(Append(self, Head(other)), Tail(other))

add_if_not_exists(self, other) ==
    [packages |-> OrInsertAll(self.packages, other.packages),
     groups   |-> PushNew(self.groups, other.groups),
     env_vars |-> OrInsertAll(self.env_vars, other.env_vars)]

\* A traversal that does not remember the groups it has processed.
mark_processed_forget(processed, group_name) == processed

\* processed_groups.insert(group_name.clone())
mark_processed(processed, group_name) == processed \cup {group_name}

RECURSIVE PushUnprocessed(_, _, _)
\* for new_group in groups: if !processed.contains(new_group) { stack.push }
PushUnprocessed(stack, groups, processed) ==
    IF groups = <<>> THEN stack
    ELSE IF Head(groups) \in processed
         THEN PushUnprocessed(stack, Tail(groups), processed)
         ELSE PushUnprocessed(Append(stack, Head(groups)), Tail(groups), processed)

(***************************************************************************)
(* The configuration of the apply machine.  The user's documents declare a *)
(* subset of the names; each name comes with its fixed block:              *)
(*   @package bash  :config s1 -> d1                                       *)
(*   @package vim   :service vim                                           *)
(*   @package grp   :env K=v                                               *)
(***************************************************************************)
M1 == [source |-> "s1", destination |-> "d1"]

M2 == [source |-> "s2", destination |-> "d2"]

Paths == {"s1", "d1", "s2", "d2"}

\* core get_dotfile_mappings(config)
get_dotfile_mappings(desired) == IF "bash" \in desired THEN <<M1>> ELSE <<>>

\* get_configured_services(config)
get_configured_services(desired) == IF "vim" \in desired THEN {"vim"} ELSE {}

\* count_environment_variables(config)
count_environment_variables(desired) == IF "grp" \in desired THEN 1 ELSE 0

\* batch_repo_available: the names `pacman -Si` knows as repository
\* packages; every other name is categorised as AUR.
RepoPackages == {"bash"}

\* The packages a successful install of the given names puts on the host:
\* a group name installs its members.
InstalledBy(names) ==
    (names \cap Pkgs) \cup UNION {get_group_packages(g) : g \in names \cap GroupNames}

\* The longest sequence of runs of the tool the model follows.
MaxRuns == 3

VARIABLES
    \* the host and the user's files
    desired,          \* keys of config.packages of the merged Config
    host,             \* the packages installed on the host
    disk,             \* the three state files
    fs,               \* the dotfile sources and destinations
    \* the running process
    pc,               \* "idle", or the step of the command the process is at
    cmd,              \* "apply" or "adopt"
    dry_run,
    non_interactive,
    args,             \* the arguments after the command word
    command,          \* what parse_command made of them
    joined_handles,   \* the threads analyze_system joined before it returned
    cache,            \* INSTALLED_CACHE
    state,            \* the PackageState held in memory
    actions,          \* the Vec<PackageAction> of the analysis
    \* what the run did, for the properties
    trace,            \* the sections and the external actions of the run, in order
    planInput,        \* the installed set and state plan_package_actions read
    dots,             \* the outcome of the dotfile section of the run
    diskAtStart,      \* the state files when the run started
    clean,            \* no operation of the run failed, no prompt was declined
    prev,             \* the kind of the run before this one
    runs,             \* the number of runs started
    \* the dotfile engines called on their own
    mappings,
    dotRes,
    fsBefore,
    \* the load chain
    docs,
    lpc,
    config,
    groups_to_process,
    processed_groups,
    loadResult,
    parseCount,
    \* owl clean
    content,          \* the text of the configuration file
    cpc,              \* the step of the clean command
    cleaned,          \* the Config handle_clean parsed
    reread,           \* the Config parsed from the cleaned file
    original,         \* the text of the file before the command
    \* retry_command
    max_retries,
    rpc,              \* "call", "sleep" or "returned"
    attempt,          \* the loop variable
    last_error,
    returned,         \* what retry_command returned
    results,          \* what the invocations of the operation returned, in order
    delays            \* the seconds slept, in order

avars == <<desired, host, disk, pc, cmd, dry_run, non_interactive, args, command, joined_handles, cache,
           state, actions, trace, planInput, dots, diskAtStart, clean, prev, runs>>

dvars == <<mappings, dotRes, fsBefore>>

lvars == <<docs, lpc, config, groups_to_process, processed_groups, loadResult,
           parseCount>>

cvars == <<content, cpc, cleaned, reread, original>>

rvars == <<max_retries, rpc, attempt, last_error, returned, results, delays>>

vars == <<avars, fs, dvars, lvars, cvars, rvars>>

NoCache == [set |-> FALSE, val |-> {}]

CacheOf(installed) == [set |-> TRUE, val |-> installed]

EmptyState == [untracked |-> <<>>, hidden |-> <<>>, managed |-> <<>>]

NoDisk == [untracked |-> NoFile, hidden |-> NoFile, managed |-> NoFile]

NoPlanInput == [valid |-> FALSE, installed |-> {}, state |-> EmptyState]

NoDots == [outcome |-> "none", actions |-> <<>>]

NoDotRes == [engine |-> "none", dry_run |-> FALSE, ok |-> TRUE, actions |-> <<>>,
             has |-> "none"]

EmptyFs == [p \in Paths |-> NoNode]

(***************************************************************************)
(* The apply command (commands/apply/mod.rs, analysis.rs, packages.rs,     *)
(* dotfiles.rs, system.rs) and the adopt command (commands/adopt.rs).      *)
(***************************************************************************)
InstallNames(acts) == {acts[i].name : i \in {j \in 1..Len(acts) : acts[j].kind = "Install"}}

RemoveNames(acts) == {acts[i].name : i \in {j \in 1..Len(acts) : acts[j].kind = "Remove"}}

RECURSIVE SeedFrom(_, _, _, _)
\* The loop of seed_managed_with_desired_installed over packages_to_check
\* from index i: a name that is effectively installed is added to managed.
SeedFrom(st, cands, installed, i) ==
    IF i > Len(cands) THEN st
    ELSE SeedFrom(IF is_package_or_group_installed(installed, cands[i])
                  THEN add_managed(st, cands[i]) ELSE st,
                  cands, installed, i + 1)

\* packages_to_check: the keys of config.packages that are not managed.
packages_to_check(desired_, st) == SetToSeq({p \in desired_ : ~is_managed(st, p)})

\* seed_managed_with_desired_installed.  The first `failed` checks end in
\* Err (the installed set could not be queried) and leave the name out.
seed_managed_with_desired_installed(desired_, st, installed, failed) ==
    SeedFrom(st, packages_to_check(desired_, st), installed, failed + 1)

RECURSIVE RemoveAllManaged(_, _)
\* for package in to_remove { state.remove_managed(package) }
RemoveAllManaged(st, names) ==
    IF names = <<>> THEN st
    ELSE RemoveAllManaged(remove_managed(st, Head(names)), Tail(names))

\* A get_installed_packages that queries the package manager on every call.
get_installed_packages_fresh(c, installed) == installed

\* The installed set a query answers from: the value of INSTALLED_CACHE once
\* it is set, the package manager's list (which then fills the cache)
\* before.
get_installed_packages(c, installed) == IF c.set THEN c.val ELSE installed

RECURSIVE MarkInstalled(_, _, _)
\* The loop of run after the package operations: a planned install that is
\* found installed is added to managed.
MarkInstalled(st, names, installed) ==
    IF names = <<>> THEN st
    ELSE MarkInstalled(IF is_package_or_group_installed(installed, Head(names))
                          /\ ~is_managed(st, Head(names))
                       THEN add_managed(st, Head(names)) ELSE st,
                       Tail(names), installed)

\* A new process is started: `owl [--dr] [-y] apply`.
StartApply ==
    /\ pc \in {"idle", "done"}
    /\ runs < MaxRuns
    /\ \E dr \in BOOLEAN, ni \in BOOLEAN :
          /\ dry_run' = dr
          /\ non_interactive' = ni
    /\ cmd' = "apply"
    /\ args' = <<>>
    /\ command' = [kind |-> "Apply"]
    /\ joined_handles' = {}
    /\ pc' = "analyze"
    /\ runs' = runs + 1
    /\ prev' = IF pc = "done" /\ cmd = "apply" /\ ~dry_run /\ clean
               THEN "apply_clean" ELSE "other"
    /\ cache' = NoCache
    /\ state' = EmptyState
    /\ actions' = <<>>
    /\ trace' = <<>>
    /\ planInput' = NoPlanInput
    /\ dots' = NoDots
    /\ diskAtStart' = disk
    /\ clean' = TRUE
    /\ UNCHANGED <<desired, host, disk, fs>>

\* TRUE only, when the outcome of an operation that is not made is not a
\* choice.
Outcome(made) == IF made THEN BOOLEAN ELSE {TRUE}

\* A run that goes on to the package phase with an empty plan after a failed
\* analysis.
after_analysis_continue(analysis_ok) == "removals"

\* run: the match on the analysis result.  Err is exit_with_error, which
\* ends the process; Ok goes on to the removals.
after_analysis(analysis_ok) == IF analysis_ok THEN "removals" ELSE "done"

\* analyze_system: the four parallel reads, the joins, the seeding of the
\* managed list and the planning.
AnalyzeSystem ==
    /\ pc = "analyze"
    /\ \/ \* a join returns an error: analyze_system returns it at once, the
          \* handles not yet joined are dropped, and run calls
          \* exit_with_error.  The state thread creates the absent files;
          \* when the join of the count thread already failed it may not
          \* have run yet.
          \E countOk, stateOk, configOk \in BOOLEAN :
            /\ ~countOk \/ ~stateOk \/ ~configOk
            /\ \E raced \in Outcome(stateOk /\ ~countOk) :
                 LET diskL == IF stateOk /\ (countOk \/ ~raced)
                              THEN PackageState_load_disk(disk) ELSE disk
                 IN  /\ disk' = diskL
                     /\ trace' = IF diskL # disk THEN Append(trace, "state_write")
                                 ELSE trace
            /\ joined_handles' = IF ~countOk THEN {"count"}
                          ELSE IF ~stateOk THEN {"count", "state"}
                          ELSE {"count", "state", "config"}
            /\ clean' = FALSE
            /\ pc' = after_analysis(FALSE)
            /\ UNCHANGED <<state, actions, cache, planInput>>
       \/ \* the three joins succeed, and the warm-up thread is joined
          /\ joined_handles' = {"count", "state", "config", "warm"}
          /\ LET loaded == PackageState_load(disk)
                 diskL  == PackageState_load_disk(disk)
                 cands  == packages_to_check(desired, loaded)
             IN  \E warmOk \in BOOLEAN :
                 \E failed \in IF warmOk THEN {0} ELSE 0..Len(cands) :
                   LET seeded  == seed_managed_with_desired_installed(
                                      desired, loaded, host, failed)
                       changed == seeded # loaded
                   IN  \E saveOk \in Outcome(changed),
                          planOk \in Outcome(~warmOk /\ failed = Len(cands)) :
                         /\ disk' = IF changed /\ saveOk THEN PackageState_save(seeded)
                                    ELSE diskL
                         /\ trace' = IF disk' # disk THEN Append(trace, "state_write")
                                     ELSE trace
                         /\ IF planOk
                            THEN /\ cache' = CacheOf(host)
                                 /\ state' = seeded
                                 /\ actions' = plan_package_actions(desired, seeded, host)
                                 /\ planInput' = [valid |-> TRUE, installed |-> host,
                                                  state |-> seeded]
                                 /\ clean' = (warmOk /\ saveOk)
                                 /\ pc' = after_analysis(TRUE)
                            ELSE \* plan_package_actions failed: exit_with_error
                                 /\ clean' = FALSE
                                 /\ pc' = after_analysis(FALSE)
                                 /\ UNCHANGED <<state, actions, cache, planInput>>
    /\ UNCHANGED <<desired, host, fs, cmd, dry_run, non_interactive, args, command, dots,
                   diskAtStart, prev, runs>>

\* A handle_removals that drops the names from managed whether or not the
\* package manager removed the packages.
managed_after_removal_always(st, to_remove, removed) ==
    RemoveAllManaged(st, to_remove)

\* The state handle_removals leaves in memory: the names are dropped from
\* managed once remove_unmanaged_packages returned Ok.
managed_after_removal(st, to_remove, removed) ==
    IF removed THEN RemoveAllManaged(st, to_remove) ELSE st

\* handle_removals
HandleRemovals ==
    /\ pc = "removals"
    /\ pc' = "packages"
    /\ LET to_remove == SetToSeq(RemoveNames(actions))
       IN  IF to_remove = <<>> \/ dry_run
           THEN UNCHANGED <<host, disk, state, trace, clean>>
           ELSE \E answer \in BOOLEAN :
                \E rmOk \in Outcome(answer) :
                \E saveOk \in Outcome(answer /\ rmOk) :
                  /\ IF ~answer
                     THEN /\ trace' = Append(trace, "prompt_remove")
                          /\ clean' = FALSE
                          /\ state' = managed_after_removal(state, to_remove, FALSE)
                          /\ UNCHANGED <<host, disk>>
                     ELSE IF ~rmOk
                     THEN /\ trace' = trace \o <<"prompt_remove", "pm_remove">>
                          /\ clean' = FALSE
                          /\ state' = managed_after_removal(state, to_remove, FALSE)
                          /\ UNCHANGED <<host, disk>>
                     ELSE /\ host' = host \ Range(to_remove)
                          /\ state' = managed_after_removal(state, to_remove, TRUE)
                          /\ disk' = IF saveOk THEN PackageState_save(state') ELSE disk
                          /\ trace' = trace \o <<"prompt_remove", "pm_remove">>
                                       \o (IF saveOk THEN <<"state_write">> ELSE <<>>)
                          /\ clean' = (clean /\ saveOk)
    /\ UNCHANGED <<desired, fs, cmd, dry_run, non_interactive, args, command, joined_handles, cache, actions,
                   planInput, dots, diskAtStart, prev, runs>>

\* categorize_packages: the repository names and the AUR names.
categorize_packages(names) ==
    [repo |-> names \cap RepoPackages, aur |-> names \ RepoPackages]

\* A run that goes back to the removals after the package operations.
after_package_operations_removals(failed) == "removals"

\* A run that ends when a package operation failed.
after_package_operations_abort(failed) == IF failed THEN "done" ELSE "dotfiles"

\* Where run_combined_package_operations goes after update_repo_packages:
\* each failure is printed and the function goes on to the dotfiles.
after_package_operations(failed) == "dotfiles"

\* run_combined_package_operations up to update_repo_packages: the
\* categorisation, the repository install, the AUR installs and updates
\* and the repository update.
PackageOperations ==
    /\ pc = "packages"
    /\ LET to_install == InstallNames(actions) IN
       \E catOk \in Outcome(to_install # {}),
          aurUpdates \in IF dry_run THEN {{}} ELSE SUBSET (host \ RepoPackages) :
        LET cat        == IF to_install # {} /\ catOk
                          THEN categorize_packages(to_install)
                          ELSE [repo |-> {}, aur |-> {}]
            aur_to_update == aurUpdates
            all_aur    == cat.aur \cup aur_to_update
            doRepo     == cat.repo # {} /\ ~dry_run
            prompted   == all_aur # {} /\ ~dry_run /\ ~non_interactive
        IN  \E repoOk \in Outcome(doRepo), answer \in Outcome(prompted) :
            LET doAur      == all_aur # {} /\ ~dry_run /\ (non_interactive \/ answer)
                doAurInst  == doAur /\ cat.aur # {}
                doAurUpd   == doAur /\ aur_to_update # {}
            IN  \E aurOk \in Outcome(doAurInst), aurUpdOk \in Outcome(doAurUpd),
                   updOk \in Outcome(~dry_run) :
                    /\ host' = host \cup (IF doRepo /\ repoOk THEN InstalledBy(cat.repo) ELSE {})
                                     \cup (IF doAurInst /\ aurOk THEN InstalledBy(cat.aur) ELSE {})
                    /\ trace' = trace
                            \o (IF doRepo THEN <<"pm_install_repo">> ELSE <<>>)
                            \o (IF prompted THEN <<"prompt_aur">> ELSE <<>>)
                            \o (IF doAurInst THEN <<"pm_install_aur">> ELSE <<>>)
                            \o (IF doAurUpd THEN <<"pm_update_aur">> ELSE <<>>)
                            \o (IF ~dry_run THEN <<"pm_update_repo">> ELSE <<>>)
                    /\ clean' = (clean /\ catOk /\ repoOk /\ answer /\ aurOk /\ aurUpdOk /\ updOk)
                    /\ pc' = after_package_operations(
                                 ~(catOk /\ repoOk /\ aurOk /\ aurUpdOk /\ updOk))
    /\ UNCHANGED <<desired, disk, fs, cmd, dry_run, non_interactive, args, command, joined_handles, cache, state,
                   actions, planInput, dots, diskAtStart, prev, runs>>

\* apply_dotfiles_with_config
DotfilesSection ==
    /\ pc = "dotfiles"
    /\ pc' = "system"
    /\ LET maps == get_dotfile_mappings(desired)
           has  == core_has_actionable_dotfiles(fs, maps)
           res  == core_apply_dotfiles(fs, maps, dry_run)
       IN  IF maps = <<>>
           THEN /\ dots' = [outcome |-> "no_dotfiles", actions |-> <<>>]
                /\ trace' = Append(trace, "dotfiles_section")
                /\ UNCHANGED fs
           ELSE IF has = "Err"
           THEN /\ dots' = [outcome |-> "analyze_failed", actions |-> <<>>]
                /\ trace' = Append(trace, "dotfiles_section")
                /\ UNCHANGED fs
           ELSE IF has = "false"
           THEN /\ dots' = [outcome |-> "up_to_date", actions |-> <<>>]
                /\ trace' = Append(trace, "dotfiles_section")
                /\ UNCHANGED fs
           ELSE /\ dots' = [outcome |-> IF res.ok THEN "applied" ELSE "apply_failed",
                            actions |-> res.actions]
                /\ fs' = res.fs
                /\ trace' = Append(trace, "dotfiles_section")
                            \o (IF ~dry_run /\ (res.ok \/ res.fs # fs)
                                THEN <<"dot_write">> ELSE <<>>)
    /\ UNCHANGED <<desired, host, disk, cmd, dry_run, non_interactive, args, command, joined_handles, cache, state,
                   actions, planInput, diskAtStart, clean, prev, runs>>

\* handle_system_section_with_config
SystemSection ==
    /\ pc = "system"
    /\ pc' = "verify"
    /\ LET services      == get_configured_services(desired)
           env_var_count == count_environment_variables(desired)
       IN  trace' = Append(trace, "system_section")
              \o (IF services # {} /\ ~dry_run THEN <<"services">> ELSE <<>>)
              \o (IF env_var_count > 0 /\ ~dry_run THEN <<"env_write">> ELSE <<>>)
    /\ UNCHANGED <<desired, host, disk, fs, cmd, dry_run, non_interactive, args, command, joined_handles, cache,
                   state, actions, planInput, dots, diskAtStart, clean, prev, runs>>

\* The end of run: the planned installs that are found installed are
\* marked managed and the state is saved.
MarkManaged ==
    /\ pc = "verify"
    /\ pc' = "done"
    /\ IF dry_run
       THEN UNCHANGED <<state, disk, trace, clean>>
       ELSE \E saveOk \in BOOLEAN :
              LET marked  == MarkInstalled(state, SetToSeq(InstallNames(actions)),
                                           get_installed_packages(cache, host))
                  changed == marked # state
              IN  /\ (~changed => saveOk)
                  /\ state' = marked
                  /\ disk' = IF changed /\ saveOk THEN PackageState_save(marked) ELSE disk
                  /\ trace' = IF changed /\ saveOk THEN Append(trace, "state_write")
                              ELSE trace
                  /\ clean' = (clean /\ saveOk)
    /\ UNCHANGED <<desired, host, fs, cmd, dry_run, non_interactive, args, command, joined_handles, cache, actions,
                   planInput, dots, diskAtStart, prev, runs>>

RECURSIVE AdoptFrom(_, _, _)
\* The loop of adopt over the targets: a target that is not managed and is
\* installed is added to managed.
AdoptFrom(st, targets, installed) ==
    IF targets = <<>> THEN st
    ELSE AdoptFrom(IF ~is_managed(st, Head(targets))
                      /\ is_package_installed(installed, Head(targets))
                   THEN add_managed(st, Head(targets)) ELSE st,
                   Tail(targets), installed)

\* parse_args_with_optional_flag: the arguments that are not the flag are
\* the items; no argument, or no item, is an error.
parse_args_with_optional_flag(xs, flag) ==
    LET items == SelectSeq(xs, LAMBDA x : x # flag)
    IN  IF xs = <<>> \/ items = <<>>
        THEN [ok |-> FALSE, items |-> <<>>, flags |-> FALSE]
        ELSE [ok |-> TRUE, items |-> items, flags |-> flag \in Range(xs)]

\* parse_adopt_command
parse_adopt_command(xs) ==
    LET r == parse_args_with_optional_flag(xs, "--all")
    IN  IF ~r.ok \/ (~r.flags /\ r.items = <<>>)
        THEN [kind |-> "Err"]
        ELSE [kind |-> "Adopt", items |-> r.items, all |-> r.flags]

\* `owl adopt <args>`: the whole command, from the parse of the arguments.
\* An argument error ends the process before adopt::run.
Adopt ==
    /\ pc \in {"idle", "done"}
    /\ runs < MaxRuns
    /\ \E xs \in {<<>>, <<"--all">>, <<"--all", "bash">>, <<"bash">>, <<"vim">>,
                  <<"bash", "vim">>} :
        \E parsed \in {parse_adopt_command(xs)} :
        \E run \in {parsed.kind = "Adopt"} :
        /\ args' = xs
        /\ command' = parsed
        /\ \E configOk \in Outcome(run /\ parsed.all) :
            LET targets == IF ~run THEN <<>>
                           ELSE IF parsed.all THEN SetToSeq(desired)
                           ELSE parsed.items
                proceed == run /\ configOk /\ targets # <<>>
            IN  \E stateOk \in Outcome(proceed) :
                \E listOk \in Outcome(proceed /\ stateOk),
                   saveOk \in Outcome(proceed /\ stateOk) :
                  IF ~proceed \/ ~stateOk
                  THEN /\ UNCHANGED <<disk, state>>
                       /\ trace' = <<>>
                       /\ clean' = (run /\ configOk /\ stateOk)
                  ELSE LET loaded  == PackageState_load(disk)
                           diskL   == PackageState_load_disk(disk)
                           adopted == IF listOk THEN AdoptFrom(loaded, targets, host)
                                      ELSE loaded
                       IN  /\ state' = adopted
                           /\ disk' = IF saveOk THEN PackageState_save(adopted) ELSE diskL
                           /\ trace' = IF disk' # disk THEN <<"state_write">> ELSE <<>>
                           /\ clean' = (listOk /\ saveOk)
    /\ cmd' = "adopt"
    /\ joined_handles' = {}
    /\ pc' = "done"
    /\ runs' = runs + 1
    /\ prev' = "other"
    /\ dry_run' = FALSE
    /\ non_interactive' = FALSE
    /\ cache' = NoCache
    /\ actions' = <<>>
    /\ planInput' = NoPlanInput
    /\ dots' = NoDots
    /\ diskAtStart' = disk
    /\ UNCHANGED <<desired, host, fs>>

(***************************************************************************)
(* The dotfile engines called on a filesystem of two mappings.             *)
(***************************************************************************)
FileNodes == {FileNode(b, t) : b \in Contents, t \in 1..MaxTime}

DirNodes == {DirNode(S) : S \in {T \in SUBSET [rel : RelNames, bytes : Contents] :
                                    \A f, g \in T : f.rel = g.rel => f = g}}

Nodes == {NoNode} \cup FileNodes \cup DirNodes

\* The second mapping shows whether the engine goes on after the first.
OtherNodes == {NoNode, FileNode(<<>>, 1), DirNode({})}

DomainAnalyze ==
    /\ lpc = "off" /\ pc = "off"
    /\ dotRes' = [engine |-> "domain_analyze", dry_run |-> TRUE, ok |-> TRUE,
                  actions |-> analyze_dotfiles(fs, mappings), has |-> "none"]
    /\ fsBefore' = fs
    /\ UNCHANGED <<fs, mappings, avars, lvars, cvars, rvars>>

DomainApply ==
    /\ lpc = "off" /\ pc = "off"
    /\ \E dr \in BOOLEAN :
          LET res == domain_apply_dotfiles(fs, mappings, dr)
          IN  /\ dotRes' = [engine |-> "domain_apply", dry_run |-> dr, ok |-> res.ok,
                            actions |-> res.actions, has |-> "none"]
              /\ fs' = res.fs
    /\ fsBefore' = fs
    /\ UNCHANGED <<mappings, avars, lvars, cvars, rvars>>

CoreApply ==
    /\ lpc = "off" /\ pc = "off"
    /\ \E dr \in BOOLEAN :
          LET res == core_apply_dotfiles(fs, mappings, dr)
          IN  /\ dotRes' = [engine |-> "core_apply", dry_run |-> dr, ok |-> res.ok,
                            actions |-> res.actions, has |-> "none"]
              /\ fs' = res.fs
    /\ fsBefore' = fs
    /\ UNCHANGED <<mappings, avars, lvars, cvars, rvars>>

\* domain has_actionable_dotfiles(mappings)
DomainHasActionable ==
    /\ lpc = "off" /\ pc = "off"
    /\ dotRes' = [engine |-> "domain_has", dry_run |-> TRUE, ok |-> TRUE,
                  actions |-> <<>>,
                  has |-> IF domain_has_actionable_dotfiles(fs, mappings)
                          THEN "true" ELSE "false"]
    /\ fsBefore' = fs
    /\ UNCHANGED <<fs, mappings, avars, lvars, cvars, rvars>>

\* core has_actionable_dotfiles(mappings): Ok(true), Ok(false) or Err.
CoreHasActionable ==
    /\ lpc = "off" /\ pc = "off"
    /\ LET has == core_has_actionable_dotfiles(fs, mappings)
       IN  dotRes' = [engine |-> "core_has", dry_run |-> TRUE, ok |-> has # "Err",
                      actions |-> <<>>, has |-> has]
    /\ fsBefore' = fs
    /\ UNCHANGED <<fs, mappings, avars, lvars, cvars, rvars>>

(***************************************************************************)
(* load_all_relevant_config_files_from_path, one step per document.        *)
(***************************************************************************)
\* load_config_if_exists(config, main.owl)
LoadMain ==
    /\ lpc = "main"
    /\ IF docs["main"].status = "absent"
       THEN /\ lpc' = "host"
            /\ UNCHANGED <<config, loadResult>>
       ELSE IF ~parse_file(docs["main"]).ok
       THEN /\ lpc' = "done"
            /\ loadResult' = "Err"
            /\ UNCHANGED config
       ELSE /\ lpc' = "host"
            /\ config' = add_if_not_exists(config, parse_file(docs["main"]).config)
            /\ UNCHANGED loadResult
    /\ UNCHANGED <<docs, groups_to_process, processed_groups, parseCount, avars, fs, dvars, cvars, rvars>>

\* load_config_if_exists(config, hosts/<hostname>.owl), then the group
\* stack is initialised from config.groups.
LoadHost ==
    /\ lpc = "host"
    /\ IF docs["host"].status # "absent" /\ ~parse_file(docs["host"]).ok
       THEN /\ lpc' = "done"
            /\ loadResult' = "Err"
            /\ UNCHANGED <<config, groups_to_process>>
       ELSE /\ lpc' = "groups"
            /\ config' = IF docs["host"].status = "absent" THEN config
                         ELSE add_if_not_exists(config, parse_file(docs["host"]).config)
            /\ groups_to_process' = config'.groups
            /\ UNCHANGED loadResult
    /\ UNCHANGED <<docs, processed_groups, parseCount, avars, fs, dvars, cvars, rvars>>

\* One iteration of the while loop of load_groups_with_precedence.
LoadGroup ==
    /\ lpc = "groups"
    /\ groups_to_process # <<>>
    /\ LET n          == Len(groups_to_process)
           group_name == groups_to_process[n]
           rest       == SubSeq(groups_to_process, 1, n - 1)
           file       == docs[group_name]
       IN  IF group_name \in processed_groups
           THEN /\ groups_to_process' = rest
                /\ UNCHANGED <<processed_groups, config, parseCount, loadResult, lpc>>
           ELSE /\ processed_groups' = mark_processed(processed_groups, group_name)
                /\ IF file.status = "absent"
                   THEN /\ groups_to_process' = rest
                        /\ UNCHANGED <<config, parseCount, loadResult, lpc>>
                   ELSE /\ parseCount[group_name] < MaxParses
                        /\ parseCount' = [parseCount EXCEPT ![group_name] = @ + 1]
                        /\ IF ~parse_file(file).ok
                           THEN /\ groups_to_process' = rest
                                /\ loadResult' = "Err"
                                /\ lpc' = "done"
                                /\ UNCHANGED config
                           ELSE /\ groups_to_process' =
                                      PushUnprocessed(rest, parse_file(file).config.groups,
                                                      processed_groups')
                                /\ config' = add_if_not_exists(config, parse_file(file).config)
                                /\ UNCHANGED <<loadResult, lpc>>
    /\ UNCHANGED <<docs, avars, fs, dvars, cvars, rvars>>

\* The stack is empty: Ok(config).
LoadDone ==
    /\ lpc = "groups"
    /\ groups_to_process = <<>>
    /\ lpc' = "done"
    /\ loadResult' = "Ok"
    /\ UNCHANGED <<docs, config, groups_to_process, processed_groups, parseCount,
                   avars, fs, dvars, cvars, rvars>>

(***************************************************************************)
(* Initial states and specifications.                                      *)
(***************************************************************************)
(***************************************************************************)
(* `owl clean`: Config::parse and optimize_config on the text of a file.   *)
(* A text is a sequence of characters.                                     *)
(***************************************************************************)
\* The rank of a character of the texts in the order of the code points.
CharRank(c) ==
    LET order == <<"\n", " ", "#", "-", ":", "=", ">", "@", "[", "]", "a",
                   "b", "c", "e", "f", "g", "i", "k", "n", "o", "p", "r",
                   "s", "u", "v">>
    IN  CHOOSE i \in 1..Len(order) : order[i] = c

\* The order of str: byte by byte, a proper prefix first.
RECURSIVE str_lt(_, _)
str_lt(a, b) ==
    IF b = <<>> THEN FALSE
    ELSE IF a = <<>> THEN TRUE
    ELSE IF Head(a) = Head(b) THEN str_lt(Tail(a), Tail(b))
    ELSE CharRank(Head(a)) < CharRank(Head(b))

RECURSIVE trim_start(_)
trim_start(s) ==
    IF s # <<>> /\ Head(s) \in {" ", "\n"} THEN trim_start(Tail(s)) ELSE s

RECURSIVE trim_end(_)
trim_end(s) ==
    IF s # <<>> /\ s[Len(s)] \in {" ", "\n"}
    THEN trim_end(SubSeq(s, 1, Len(s) - 1)) ELSE s

trim(s) == trim_end(trim_start(s))

starts_with(s, p) == Len(s) >= Len(p) /\ SubSeq(s, 1, Len(p)) = p

strip_prefix(s, p) == SubSeq(s, Len(p) + 1, Len(s))

RECURSIVE trim_start_matches(_, _)
trim_start_matches(s, p) ==
    IF starts_with(s, p) THEN trim_start_matches(strip_prefix(s, p), p) ELSE s

\* split_once at the first occurrence of pat: <<>> for None,
\* <<before, after>> for Some.
split_once(s, pat) ==
    LET hits == {i \in 1..(Len(s) - Len(pat) + 1) :
                    SubSeq(s, i, i + Len(pat) - 1) = pat}
        i    == CHOOSE h \in hits : \A j \in hits : h <= j
    IN  IF hits = {} THEN <<>>
        ELSE <<SubSeq(s, 1, i - 1), SubSeq(s, i + Len(pat), Len(s))>>

\* str::lines: the pieces between the line feeds, without a last empty one.
RECURSIVE lines(_)
lines(text) ==
    IF text = <<>> THEN <<>>
    ELSE LET parts == split_once(text, <<"\n">>)
         IN  IF parts = <<>> THEN <<text>>
             ELSE <<parts[1]>> \o lines(parts[2])

RECURSIVE join(_, _)
join(strs, sep) ==
    IF strs = <<>> THEN <<>>
    ELSE IF Len(strs) = 1 THEN strs[1]
    ELSE strs[1] \o sep \o join(Tail(strs), sep)

\* The keywords of the configuration language.
Kw ==
    [package  |-> <<"@", "p", "a", "c", "k", "a", "g", "e", " ">>,
     pkg      |-> <<"@", "p", "k", "g", " ">>,
     packages |-> <<"@", "p", "a", "c", "k", "a", "g", "e", "s">>,
     pkgs     |-> <<"@", "p", "k", "g", "s">>,
     config   |-> <<":", "c", "o", "n", "f", "i", "g", " ">>,
     cfg      |-> <<":", "c", "f", "g", " ">>,
     service  |-> <<":", "s", "e", "r", "v", "i", "c", "e", " ">>,
     pkg_env  |-> <<":", "e", "n", "v", " ">>,
     env      |-> <<"@", "e", "n", "v", " ">>,
     group    |-> <<"@", "g", "r", "o", "u", "p", " ">>,
     arrow    |-> <<" ", "-", ">", " ">>]

\* HashMap::insert
HashMap_insert(map, k, v) ==
    [x \in DOMAIN map \cup {k} |-> IF x = k THEN v ELSE map[x]]

\* The Package a declaration inserts.  An Option is <<>> or <<value>>.
Package_new == [config |-> <<>>, service |-> <<>>, env_vars |-> EmptyMap]

\* if let Some(pkg_name) = current_package
\*     if let Some(package) = config.packages.get_mut(pkg_name)
\* st holds the locals of Config::parse.  <<>> for no package, <<package>>
\* for the package the directives go to.
current(st) ==
    IF /\ st.current_package # <<>>
       /\ st.current_package[1] \in DOMAIN st.config.packages
    THEN <<st.config.packages[st.current_package[1]]>>
    ELSE <<>>

\* The write through the reference get_mut gave.
set_current(st, package) ==
    [st EXCEPT !.config.packages[st.current_package[1]] = package]

\* A declaration that keeps the entry a name already has.
parse_package_declaration_keep(st, line) ==
    LET name == IF starts_with(line, Kw.package)
                THEN trim(strip_prefix(line, Kw.package))
                ELSE trim(strip_prefix(line, Kw.pkg))
    IN  [config |-> [st.config EXCEPT
                        !.packages = IF name \in DOMAIN @ THEN @
                                     ELSE HashMap_insert(@, name, Package_new)],
         current_package |-> <<name>>,
         in_packages_section |-> FALSE]

parse_package_declaration(st, line) ==
    LET name == IF starts_with(line, Kw.package)
                THEN trim(strip_prefix(line, Kw.package))
                ELSE trim(strip_prefix(line, Kw.pkg))
    IN  [config |-> [st.config EXCEPT
                        !.packages = HashMap_insert(@, name, Package_new)],
         current_package |-> <<name>>,
         in_packages_section |-> FALSE]

parse_packages_section(st) ==
    [st EXCEPT !.in_packages_section = TRUE, !.current_package = <<>>]

parse_group_declaration(st, line) ==
    [st EXCEPT !.config.groups = Append(@, trim(strip_prefix(line, Kw.group))),
               !.current_package = <<>>]

parse_package_in_section(st, line) ==
    [st EXCEPT !.config.packages = HashMap_insert(@, trim(line), Package_new)]

parse_config_directive(st, line, prefix) ==
    LET rest  == strip_prefix(line, prefix)
        parts == split_once(rest, Kw.arrow)
        entry == IF parts # <<>>
                 THEN trim(parts[1]) \o Kw.arrow \o trim(parts[2])
                 ELSE trim(rest)
    IN  IF current(st) # <<>>
        THEN set_current(st, [current(st)[1] EXCEPT !.config = Append(@, entry)])
        ELSE st

parse_service_directive(st, line) ==
    LET service_part == strip_prefix(line, Kw.service)
        parts        == split_once(service_part, <<"[">>)
        service_name == trim(IF parts = <<>> THEN service_part ELSE parts[1])
    IN  IF current(st) # <<>>
        THEN set_current(st, [current(st)[1] EXCEPT !.service = <<service_name>>])
        ELSE st

parse_package_env_directive(st, line) ==
    LET parts == split_once(strip_prefix(line, Kw.pkg_env), <<"=">>)
    IN  IF parts # <<>> /\ current(st) # <<>>
        THEN set_current(st, [current(st)[1] EXCEPT !.env_vars =
                 HashMap_insert(@, trim(parts[1]), trim(parts[2]))])
        ELSE st

parse_global_env_directive(st, line) ==
    LET parts == split_once(strip_prefix(line, Kw.env), <<"=">>)
    IN  IF parts # <<>>
        THEN [st EXCEPT !.config.env_vars =
                 HashMap_insert(@, trim(parts[1]), trim(parts[2]))]
        ELSE st

\* parse_line: the first branch that matches; an unknown line is ignored.
parse_line(st, line) ==
    IF starts_with(line, Kw.package) \/ starts_with(line, Kw.pkg)
    THEN parse_package_declaration(st, line)
    ELSE IF line = Kw.packages \/ line = Kw.pkgs
    THEN parse_packages_section(st)
    ELSE IF starts_with(line, Kw.config)
    THEN parse_config_directive(st, line, Kw.config)
    ELSE IF starts_with(line, Kw.cfg)
    THEN parse_config_directive(st, line, Kw.cfg)
    ELSE IF starts_with(line, Kw.service)
    THEN parse_service_directive(st, line)
    ELSE IF starts_with(line, Kw.pkg_env)
    THEN parse_package_env_directive(st, line)
    ELSE IF starts_with(line, Kw.env)
    THEN parse_global_env_directive(st, line)
    ELSE IF starts_with(line, Kw.group)
    THEN parse_group_declaration(st, line)
    ELSE IF ~starts_with(line, <<"@">>) /\ ~starts_with(line, <<":">>)
            /\ st.in_packages_section
    THEN parse_package_in_section(st, line)
    ELSE st

\* The loop of Config::parse over the lines from the i-th on.
RECURSIVE parse_from(_, _, _)
parse_from(ls, i, st) ==
    IF i > Len(ls) THEN st
    ELSE LET line == trim(ls[i])
         IN  IF line = <<>> \/ starts_with(line, <<"#">>)
             THEN parse_from(ls, i + 1, st)
             ELSE parse_from(ls, i + 1, parse_line(st, line))

\* Config::parse.  No line makes it return Err.
Config_parse(text) ==
    parse_from(lines(text), 1,
               [config |-> Config_new, current_package |-> <<>>,
                in_packages_section |-> FALSE]).config

\* The orders in which a HashMap may yield the keys S.
IterOrders(S) == {s \in [1..Cardinality(S) -> S] : Range(s) = S}

\* For every package an order of its env_vars.
RECURSIVE EnvIterOrders(_, _)
EnvIterOrders(packages, names) ==
    IF names = {} THEN {EmptyMap}
    ELSE LET n == CHOOSE x \in names : TRUE
         IN  {HashMap_insert(f, n, o) :
                 f \in EnvIterOrders(packages, names \ {n}),
                 o \in IterOrders(DOMAIN packages[n].env_vars)}

\* Vec::sort and sort_by on <<key, value>> pairs: the values by key, equal
\* keys in the order they had.
sort_by_key(pairs) ==
    LET n == Len(pairs)
        before(j, i) == \/ str_lt(pairs[j][1], pairs[i][1])
                        \/ pairs[j][1] = pairs[i][1] /\ j < i
        pos(i) == Cardinality({j \in 1..n : before(j, i)}) + 1
    IN  [k \in 1..n |-> pairs[CHOOSE i \in 1..n : pos(i) = k][2]]

\* One line, with its line feed, for each element of strs.
RECURSIVE line_each(_, _)
line_each(prefix, strs) ==
    IF strs = <<>> THEN <<>>
    ELSE prefix \o Head(strs) \o <<"\n">> \o line_each(prefix, Tail(strs))

\* The "key=value" of the entries of map, in the order iter.
env_entries(map, iter) ==
    [i \in 1..Len(iter) |-> iter[i] \o <<"=">> \o map[iter[i]]]

is_loose(pkg) ==
    pkg.config = <<>> /\ pkg.service = <<>> /\ DOMAIN pkg.env_vars = {}

\* The block of a package with directives.
package_block(name, pkg, env_iter) ==
    trim_end(Kw.pkg \o name \o <<"\n">>
             \o line_each(Kw.cfg, pkg.config)
             \o line_each(Kw.service, pkg.service)
             \o line_each(Kw.pkg_env, env_entries(pkg.env_vars, env_iter)))

\* optimize_config.  pkg_iter, env_iter and pkg_env_iters are the orders in
\* which the three kinds of HashMap yield their entries.
optimize_config(cfg, pkg_iter, env_iter, pkg_env_iters) ==
    LET loose == SelectSeq(pkg_iter, LAMBDA n : is_loose(cfg.packages[n]))
        loose_packages ==
            sort_by_key([i \in 1..Len(loose) |-> <<loose[i], loose[i]>>])
        directed == SelectSeq(pkg_iter, LAMBDA n : ~is_loose(cfg.packages[n]))
        blocks == [i \in 1..Len(directed) |->
                      package_block(directed[i], cfg.packages[directed[i]],
                                    pkg_env_iters[directed[i]])]
        \* the key sort_by compares: the first line without its "@pkg "s
        key(block) == trim_start_matches(
                          IF lines(block) = <<>> THEN <<>> ELSE lines(block)[1],
                          Kw.pkg)
        packages_with_directives ==
            sort_by_key([i \in 1..Len(blocks) |-> <<key(blocks[i]), blocks[i]>>])
        sorted_groups ==
            sort_by_key([i \in 1..Len(cfg.groups) |->
                            <<cfg.groups[i], cfg.groups[i]>>])
        group_section ==
            IF cfg.groups # <<>>
            THEN <<trim_end(line_each(Kw.group, sorted_groups))>> ELSE <<>>
        env_section ==
            IF DOMAIN cfg.env_vars # {}
            THEN <<trim_end(line_each(Kw.env, env_entries(cfg.env_vars, env_iter)))>>
            ELSE <<>>
        pkgs_section ==
            IF loose_packages # <<>>
            THEN <<trim_end(Kw.pkgs \o <<"\n">> \o line_each(<<>>, loose_packages))>>
            ELSE <<>>
        sections == group_section \o env_section \o packages_with_directives
                    \o pkgs_section
        joined == lines(join(sections, <<"\n", "\n">>))
    IN  join([i \in 1..Len(joined) |-> trim_end(joined[i])], <<"\n">>)

\* The most lines a configuration file of the model has.
MaxLines == 3

\* The configuration files of the model: up to MaxLines lines, each a
\* declaration, a directive, a bare name or a comment.
FileTexts ==
    LET FileLines ==
            { Kw.pkg \o <<"a">>,
              Kw.package \o <<"b", " ">>,
              Kw.pkg \o <<"@", "a">>,
              Kw.pkgs,
              <<"b">>,
              Kw.cfg \o <<"a">> \o Kw.arrow \o <<"b">>,
              Kw.service \o <<"a", "[", "b", "]">>,
              Kw.pkg_env \o <<"a", "=", "b">>,
              Kw.env \o <<"a", "=", "b">>,
              Kw.env \o <<"b", " ", "=", " ", "a", "=">>,
              Kw.group \o <<"a">>,
              Kw.group \o <<"b">>,
              <<"#", " ", "a">> }
    IN  {join(ls, <<"\n">>) : ls \in SeqsUpTo(FileLines, MaxLines)}

\* handle_clean: the file is read and parsed, optimize_config makes the new
\* text, and the text is written over the file.  A failed read leaves the
\* file alone; a failed write leaves it as it was or truncated.
HandleClean ==
    /\ cpc = "file"
    /\ \/ /\ cpc' = "read_failed"
          /\ UNCHANGED <<content, cleaned>>
       \/ LET c == Config_parse(content)
          IN  \E pkg_iter \in IterOrders(DOMAIN c.packages),
                 env_iter \in IterOrders(DOMAIN c.env_vars),
                 pkg_env_iters \in EnvIterOrders(c.packages, DOMAIN c.packages) :
                /\ cleaned' = c
                /\ \/ /\ content' = optimize_config(c, pkg_iter, env_iter,
                                                    pkg_env_iters)
                      /\ cpc' = "cleaned"
                   \/ /\ content' \in {content, <<>>}
                      /\ cpc' = "write_failed"
    /\ UNCHANGED <<reread, original, avars, fs, dvars, lvars, rvars>>

\* The cleaned file is parsed again.
Reparse ==
    /\ cpc = "cleaned"
    /\ reread' = Config_parse(content)
    /\ cpc' = "reparsed"
    /\ UNCHANGED <<content, cleaned, original, avars, fs, dvars, lvars, rvars>>

ApplyOff ==
    /\ desired = {} /\ host = {} /\ disk = NoDisk
    /\ pc = "off" /\ cmd = "none" /\ dry_run = FALSE /\ non_interactive = FALSE
    /\ args = <<>> /\ command = [kind |-> "None"] /\ joined_handles = {}
    /\ cache = NoCache /\ state = EmptyState /\ actions = <<>>
    /\ trace = <<>> /\ planInput = NoPlanInput /\ dots = NoDots
    /\ diskAtStart = NoDisk /\ clean = TRUE /\ prev = "none" /\ runs = 0

DotsOff ==
    /\ mappings = <<>> /\ dotRes = NoDotRes /\ fsBefore = EmptyFs

LoadOff ==
    /\ docs = [d \in DocNames |-> AbsentDoc]
    /\ lpc = "off" /\ config = Config_new
    /\ groups_to_process = <<>> /\ processed_groups = {}
    /\ loadResult = "pending"
    /\ parseCount = [g \in CfgGroups |-> 0]

\* A freshly installed tool (no state directory yet) on a host with some
\* packages installed, a configuration and the dotfile of bash.
CleanOff ==
    /\ content = <<>> /\ cpc = "off"
    /\ cleaned = Config_new /\ reread = Config_new /\ original = <<>>

NoResult == [ok |-> FALSE, msg |-> <<>>]

RetryOff ==
    /\ max_retries = 0 /\ rpc = "off" /\ attempt = 0
    /\ last_error = NoResult /\ returned = NoResult
    /\ results = <<>> /\ delays = <<>>

InitApply ==
    /\ desired \in SUBSET Names
    /\ host \in SUBSET Pkgs
    /\ disk = NoDisk
    /\ fs \in {[EmptyFs EXCEPT !["s1"] = s, !["d1"] = d] :
                  s \in {NoNode, FileNode(<<0>>, 1)},
                  d \in {NoNode, FileNode(<<0>>, 1), FileNode(<<1>>, 1), DirNode({})}}
    /\ ("bash" \notin desired => fs = EmptyFs)
    /\ pc = "idle" /\ cmd = "none" /\ dry_run = FALSE /\ non_interactive = FALSE
    /\ args = <<>> /\ command = [kind |-> "None"] /\ joined_handles = {}
    /\ cache = NoCache /\ state = EmptyState /\ actions = <<>>
    /\ trace = <<>> /\ planInput = NoPlanInput /\ dots = NoDots
    /\ diskAtStart = NoDisk /\ clean = TRUE /\ prev = "none" /\ runs = 0
    /\ DotsOff /\ LoadOff /\ CleanOff /\ RetryOff

NextApply ==
    \/ StartApply
    \/ AnalyzeSystem
    \/ HandleRemovals
    \/ PackageOperations
    \/ DotfilesSection
    \/ SystemSection
    \/ MarkManaged
    \/ Adopt

ApplyStep == NextApply /\ UNCHANGED <<dvars, lvars, cvars, rvars>>

SpecApply == InitApply /\ [][ApplyStep]_vars

InitDots ==
    /\ fs \in {[p \in Paths |-> IF p = "s1" THEN s1 ELSE IF p = "d1" THEN d1
                                  ELSE IF p = "s2" THEN s2 ELSE d2] :
                  s1 \in Nodes, d1 \in Nodes, s2 \in OtherNodes, d2 \in OtherNodes}
    /\ mappings = <<M1, M2>>
    /\ dotRes = NoDotRes
    /\ fsBefore = fs
    /\ ApplyOff /\ LoadOff /\ CleanOff /\ RetryOff

NextDots ==
    \/ DomainAnalyze
    \/ DomainApply
    \/ CoreApply
    \/ DomainHasActionable
    \/ CoreHasActionable

SpecDots == InitDots /\ [][NextDots]_vars

RefSeqs(d) == SeqsUpTo(CfgGroups, IF d \in {"main", "host"} THEN MaxTopRefs ELSE MaxRefs)

DocFiles(d) ==
    {AbsentDoc, BadDoc}
    \cup {OkDoc(ParsedDoc(d, declares, refs)) : declares \in BOOLEAN, refs \in RefSeqs(d)}

InitLoad ==
    /\ docs \in {[d \in DocNames |-> IF d = "main" THEN m ELSE IF d = "host" THEN h
                                       ELSE IF d = "core" THEN c ELSE v] :
                    m \in DocFiles("main"), h \in DocFiles("host"),
                    c \in DocFiles("core"), v \in DocFiles("dev")}
    /\ lpc = "main" /\ config = Config_new
    /\ groups_to_process = <<>> /\ processed_groups = {}
    /\ loadResult = "pending"
    /\ parseCount = [g \in CfgGroups |-> 0]
    /\ ApplyOff /\ DotsOff /\ fs = EmptyFs /\ CleanOff /\ RetryOff

NextLoad ==
    \/ LoadMain
    \/ LoadHost
    \/ LoadGroup
    \/ LoadDone

SpecLoad == InitLoad /\ [][NextLoad]_vars

\* The load is a sequential function: it keeps running until it returns.
FairLoad == SpecLoad /\ WF_vars(NextLoad)

(***************************************************************************)
(* The planner called on every triple of desired names, installed set and  *)
(* PackageState.                                                           *)
(***************************************************************************)
ManagedLists == {SetToSeq(S) : S \in SUBSET Names}

Plan ==
    /\ pc = "plan"
    /\ pc' = "planned"
    /\ actions' = plan_package_actions(desired, state, host)
    /\ planInput' = [valid |-> TRUE, installed |-> host, state |-> state]
    /\ UNCHANGED <<desired, host, disk, cmd, dry_run, non_interactive, args, command, joined_handles, cache, state,
                   trace, dots, diskAtStart, clean, prev, runs>>
    /\ UNCHANGED <<fs, dvars, lvars, cvars, rvars>>

InitPlan ==
    /\ desired \in SUBSET Names
    /\ host \in SUBSET Pkgs
    /\ state \in [untracked : {<<>>, default_untracked_packages},
                  hidden : {<<>>}, managed : ManagedLists]
    /\ pc = "plan" /\ cmd = "none" /\ dry_run = FALSE /\ non_interactive = FALSE
    /\ args = <<>> /\ command = [kind |-> "None"] /\ joined_handles = {}
    /\ disk = NoDisk /\ cache = NoCache /\ actions = <<>>
    /\ trace = <<>> /\ planInput = NoPlanInput /\ dots = NoDots
    /\ diskAtStart = NoDisk /\ clean = TRUE /\ prev = "none" /\ runs = 0
    /\ fs = EmptyFs /\ DotsOff /\ LoadOff /\ CleanOff /\ RetryOff

SpecPlan == InitPlan /\ [][Plan]_vars

(***************************************************************************)
(* `owl clean` on every file of the model, and a parse of the result.      *)
(***************************************************************************)
InitClean ==
    /\ content \in FileTexts
    /\ cpc = "file"
    /\ cleaned = Config_new /\ reread = Config_new /\ original = content
    /\ ApplyOff /\ DotsOff /\ LoadOff /\ fs = EmptyFs /\ RetryOff

NextClean ==
    \/ HandleClean
    \/ Reparse

SpecClean == InitClean /\ [][NextClean]_vars

(***************************************************************************)
(* The load chain of core/config.rs: the same walk over the main, the      *)
(* host and the group documents, merging with merge_with_precedence.       *)
(***************************************************************************)
\* self.packages.insert(name, package) for every package of other, the
\* groups pushed unless present, self.env_vars.extend(other.env_vars).
merge_with_precedence(self, other) ==
    [packages |-> InsertAll(self.packages, other.packages),
     groups   |-> PushNew(self.groups, other.groups),
     env_vars |-> InsertAll(self.env_vars, other.env_vars)]

\* load_config_if_exists: nothing for an absent file, Err for a file that
\* cannot be parsed, else the merge.
load_config_if_exists(cfg, file) ==
    IF file.status = "absent" THEN [ok |-> TRUE, config |-> cfg]
    ELSE IF ~parse_file(file).ok THEN [ok |-> FALSE, config |-> cfg]
    ELSE [ok |-> TRUE,
          config |-> merge_with_precedence(cfg, parse_file(file).config)]

RECURSIVE load_groups_with_precedence(_, _, _, _)
\* The while loop over the stack groups_to_process.
load_groups_with_precedence(stack, cfg, processed, files) ==
    IF stack = <<>> THEN [ok |-> TRUE, config |-> cfg]
    ELSE LET n          == Len(stack)
             group_name == stack[n]
             rest       == SubSeq(stack, 1, n - 1)
             seen       == processed \cup {group_name}
             file       == files[group_name]
         IN  IF group_name \in processed
             THEN load_groups_with_precedence(rest, cfg, processed, files)
             ELSE IF file.status = "absent"
             THEN load_groups_with_precedence(rest, cfg, seen, files)
             ELSE IF ~parse_file(file).ok
             THEN [ok |-> FALSE, config |-> cfg]
             ELSE load_groups_with_precedence(
                      PushUnprocessed(rest, parse_file(file).config.groups, seen),
                      merge_with_precedence(cfg, parse_file(file).config),
                      seen, files)

\* Config::load_all_relevant_config_files_from_path_with_pest: main, host,
\* then the groups when the groups directory exists; the first error ends
\* the load.  hostname_ok: /etc/hostname could be read.
LoadAllRelevantConfigFilesWithPest ==
    /\ lpc = "with_pest"
    /\ lpc' = "with_pest_done"
    /\ \E hostname_ok \in BOOLEAN :
          LET main_loaded == load_config_if_exists(Config_new, docs["main"])
              host_loaded == load_config_if_exists(main_loaded.config, docs["host"])
              groups_dir  == \E g \in CfgGroups : docs[g].status # "absent"
              loaded      == IF groups_dir
                             THEN load_groups_with_precedence(
                                      host_loaded.config.groups, host_loaded.config,
                                      {}, docs)
                             ELSE host_loaded
          IN  IF main_loaded.ok /\ hostname_ok /\ host_loaded.ok /\ loaded.ok
              THEN config' = loaded.config /\ loadResult' = "Ok"
              ELSE loadResult' = "Err" /\ UNCHANGED config
    /\ UNCHANGED <<docs, groups_to_process, processed_groups, parseCount,
                   avars, fs, dvars, cvars, rvars>>

InitPrecedence ==
    /\ docs \in {[d \in DocNames |-> IF d = "main" THEN m ELSE IF d = "host" THEN h
                                       ELSE IF d = "core" THEN c ELSE v] :
                    m \in DocFiles("main"), h \in DocFiles("host"),
                    c \in DocFiles("core"), v \in DocFiles("dev")}
    /\ lpc = "with_pest" /\ config = Config_new
    /\ groups_to_process = <<>> /\ processed_groups = {}
    /\ loadResult = "pending"
    /\ parseCount = [g \in CfgGroups |-> 0]
    /\ ApplyOff /\ DotsOff /\ fs = EmptyFs /\ CleanOff /\ RetryOff

SpecPrecedence == InitPrecedence /\ [][LoadAllRelevantConfigFilesWithPest]_vars

(***************************************************************************)
(* retry_command: an operation that may fail, called again after a         *)
(* transient network error.                                                *)
(***************************************************************************)
\* The most retries a caller asks for.
MaxRetries == 3

\* What an operation returns: Ok, or an error whose message is the
\* sequence of its parts (the context a caller prepends, then the cause).
OperationResults ==
    { [ok |-> TRUE, msg |-> <<>>] } \cup
    { [ok |-> FALSE, msg |-> m] :
        m \in { <<"Connection reset by peer">>,
                 <<"Failed to run paru -Qu: ", "error sending request">>,
                 <<"error trying to connect">>,
                 <<"Failed to check AUR updates: ", "os error 104">>,
                 <<"Failed to run paru -Qu: ", "os error 2">>,
                 <<"Paru search failed: ", "exit status 1">> } }

\* str::contains, for a pattern that is one part of a message.
contains(msg, pat) == \E i \in 1..Len(msg) : msg[i] = pat

\* A retry_command that takes every error for a network error.
should_retry_always(err_msg) == TRUE

should_retry(err_msg) ==
    \/ contains(err_msg, "Connection reset by peer")
    \/ contains(err_msg, "error sending request")
    \/ contains(err_msg, "error trying to connect")
    \/ contains(err_msg, "os error 104")

\* One pass of the loop up to the sleep: the operation is invoked; Ok is
\* returned at once, an error is returned when it is not a network error
\* or when this was the last attempt.
InvokeOperation ==
    /\ rpc = "call"
    /\ \E r \in OperationResults :
          /\ results' = Append(results, r)
          /\ IF r.ok
             THEN /\ returned' = r
                  /\ rpc' = "returned"
                  /\ UNCHANGED last_error
             ELSE /\ last_error' = r
                  /\ IF ~should_retry(r.msg) \/ attempt = max_retries
                     THEN returned' = r /\ rpc' = "returned"
                     ELSE rpc' = "sleep" /\ UNCHANGED returned
    /\ UNCHANGED <<max_retries, attempt, delays, avars, fs, dvars, lvars, cvars>>

\* thread::sleep(Duration::from_secs(1 << attempt)), and the next pass.
Backoff ==
    /\ rpc = "sleep"
    /\ delays' = Append(delays, 2 ^ attempt)
    /\ attempt' = attempt + 1
    /\ rpc' = "call"
    /\ UNCHANGED <<max_retries, last_error, returned, results, avars, fs, dvars,
                   lvars, cvars>>

InitRetry ==
    /\ max_retries \in 0..MaxRetries
    /\ rpc = "call" /\ attempt = 0
    /\ last_error = NoResult /\ returned = NoResult
    /\ results = <<>> /\ delays = <<>>
    /\ ApplyOff /\ DotsOff /\ LoadOff /\ CleanOff /\ fs = EmptyFs

NextRetry ==
    \/ InvokeOperation
    \/ Backoff

SpecRetry == InitRetry /\ [][NextRetry]_vars

(***************************************************************************)
(* Properties of the planner.                                              *)
(***************************************************************************)
\* A package counts as installed when the installed set holds it; a group
\* when the installed set holds every member.
CountsAsInstalled(installed, p) ==
    IF p \in GroupNames THEN SyncGroups[p] \subseteq installed ELSE p \in installed

\* C1: for every config, installed set and PackageState, the plan holds
\* Install{p} exactly for the desired names p that do not count as installed
\* (a group counts as installed only if every member is installed), and
\* Remove{p} exactly for the installed names p that are not desired and are
\* in state.managed.
C1_PlannerCorrect ==
    pc = "planned" =>
        \A p \in Names :
            /\ Install(p) \in Range(actions)
                  <=> (p \in desired /\ ~CountsAsInstalled(host, p))
            /\ Remove(p) \in Range(actions)
                  <=> (p \in host /\ p \notin desired /\ p \in Range(state.managed))

\* The plan of a triple with a desired group that lacks a member and an
\* installed managed package that is not desired: one Install and one
\* Remove are planned.
C1_Witness ==
    /\ pc = "planned"
    /\ desired = {"grp"}
    /\ host = {"vim"}
    /\ state.managed = <<"vim">>
    /\ actions = <<Install("grp"), Remove("vim")>>

(***************************************************************************)
(* Properties of the apply and adopt commands.                             *)
(***************************************************************************)
\* C2: across any sequence of adopt and apply runs, the plan never holds
\* Remove{p} for a p in state.untracked.
C2_UntrackedNeverRemoved ==
    \A i \in 1..Len(actions) :
        actions[i].kind = "Remove" => ~is_untracked(state, actions[i].name)

\* The classification of the mappings of the config by the engine the apply
\* command calls is UpToDate for every mapping.
AllMappingsUpToDate ==
    LET maps == get_dotfile_mappings(desired)
    IN  \A i \in 1..Len(maps) :
            core_status(fs[maps[i].source], fs[maps[i].destination]) = "UpToDate"

\* C3: when every operation succeeds and every prompt is answered yes, the
\* second of two consecutive non-dry-run apply runs plans no Install and no
\* Remove and finds every dotfile mapping UpToDate.
C3_SecondApplyIdle ==
    (cmd = "apply" /\ ~dry_run /\ prev = "apply_clean" /\ clean
        /\ pc \in {"removals", "packages", "dotfiles"})
    => (actions = <<>> /\ AllMappingsUpToDate)

\* The events of a run that change the host, the user's files or the state
\* files.
MutatingEvents ==
    {"pm_remove", "pm_install_repo", "pm_install_aur", "pm_update_aur",
     "pm_update_repo", "dot_write", "services", "env_write", "state_write"}

\* C4: an apply run with the dry-run flag set issues no install, remove or
\* update, writes no dotfile destination, changes no service, writes no
\* environment file and leaves the state files as they were before the run.
C4_DryRunMutatesNothing ==
    (cmd = "apply" /\ dry_run /\ pc \notin {"idle", "off", "plan", "planned"})
    => (Range(trace) \cap MutatingEvents = {} /\ disk = diskAtStart)

(***************************************************************************)
(* Properties of the load chain.                                           *)
(***************************************************************************)
\* The @group names a document that loads refers to.
RefsOf(d) == IF docs[d].status = "ok" THEN Range(docs[d].config.groups) ELSE {}

RECURSIVE ReachFrom(_, _)
\* The group names reached from S through the group documents that load.
ReachFrom(S, n) ==
    IF n = 0 THEN S
    ELSE ReachFrom(S \cup UNION {RefsOf(g) : g \in S}, n - 1)

\* The groups of the load chain: those main and host refer to, and those
\* referred to by a group of the chain.
ChainGroups == ReachFrom(RefsOf("main") \cup RefsOf("host"), Cardinality(CfgGroups))

\* Document d is in the chain, loads and declares the package and the
\* variable.
Declares(d) ==
    /\ d \in {"main", "host"} \cup ChainGroups
    /\ docs[d].status = "ok"
    /\ DocPackage \in DOMAIN docs[d].config.packages

\* The merged Config holds the entries of document d, whole.
HoldsEntryOf(d) ==
    /\ DocPackage \in DOMAIN config.packages
    /\ config.packages[DocPackage] = PackageIn(d)
    /\ DocEnvKey \in DOMAIN config.env_vars
    /\ config.env_vars[DocEnvKey] = d

\* C5: for a package name and a global variable name declared in several of
\* the main, host and group documents, the merged Config holds exactly the
\* entry of the document of highest precedence that declares it, main over
\* host over groups, with no field of a lower declaration.
C5_Precedence ==
    (lpc = "done" /\ loadResult = "Ok") =>
        /\ Declares("main") => HoldsEntryOf("main")
        /\ (~Declares("main") /\ Declares("host")) => HoldsEntryOf("host")
        /\ (~Declares("main") /\ ~Declares("host")
                /\ \E g \in CfgGroups : Declares(g))
             => \E g \in CfgGroups : Declares(g) /\ HoldsEntryOf(g)

\* The load returned a Config and main, host and a group of the chain
\* declare the same names.
C5_Witness ==
    /\ lpc = "done" /\ loadResult = "Ok"
    /\ Declares("main") /\ Declares("host") /\ Declares("core")
    /\ HoldsEntryOf("main")

\* C6: load_groups_with_precedence terminates for every set of group
\* documents, cyclic references included, and parses and merges the file of
\* each group name at most once.
C6_TerminatesOnce ==
    /\ <>(lpc = "done")
    /\ [](\A g \in CfgGroups : parseCount[g] <= 1)

\* The load returned although a group refers to itself and two groups refer
\* to each other; each was parsed once.
C6_Witness ==
    /\ lpc = "done" /\ loadResult = "Ok"
    /\ "core" \in RefsOf("core") /\ "dev" \in RefsOf("core") /\ "core" \in RefsOf("dev")
    /\ parseCount["core"] = 1 /\ parseCount["dev"] = 1

\* C7: after the load returns, config.groups holds each group name at most
\* once, also when a document repeats an @group line or several documents
\* name the same group.
C7_GroupsUnique ==
    (lpc = "done" /\ loadResult = "Ok") =>
        \A i, j \in 1..Len(config.groups) :
            config.groups[i] = config.groups[j] => i = j

\* The load returned; a group document of the chain repeats an @group line
\* and names the group main names, and host names the repeated group too.
C7_Witness ==
    /\ lpc = "done" /\ loadResult = "Ok"
    /\ RefsOf("main") = {"core"} /\ RefsOf("host") = {"dev"}
    /\ docs["dev"].status = "ok" /\ docs["dev"].config.groups = <<"core", "core">>
    /\ docs["core"].status = "ok" /\ docs["core"].config.groups = <<"dev", "dev">>
    /\ config.groups = <<"core", "dev">>

\* C8: if a document of the chain that exists (main, host or a group file
\* referred to) cannot be read or parsed, the load returns an error, never
\* a Config built from the documents that did load.
C8_NoPartialConfig ==
    (lpc = "done"
        /\ \E d \in {"main", "host"} \cup ChainGroups : docs[d].status = "bad")
    => loadResult = "Err"

\* The load returned an error for a group file that cannot be read and is
\* referred to by another group only, after main, host and that group
\* loaded.
C8_Witness ==
    /\ lpc = "done" /\ loadResult = "Err"
    /\ docs["main"].status = "ok" /\ docs["host"].status = "ok"
    /\ docs["core"].status = "ok" /\ docs["dev"].status = "bad"
    /\ "dev" \notin RefsOf("main") \cup RefsOf("host")
    /\ "dev" \in RefsOf("core") /\ "core" \in ChainGroups

(***************************************************************************)
(* Properties of the dotfile engines.                                      *)
(***************************************************************************)
\* The status the first rule that applies gives mapping m on filesystem f:
\* a missing source is a Conflict, else a missing destination is a Create,
\* else a file-versus-directory mismatch is a Conflict; "any" when none of
\* the three rules applies.
FirstRule(f, m) ==
    IF ~exists(f[m.source]) THEN "Conflict"
    ELSE IF ~exists(f[m.destination]) THEN "Create"
    ELSE IF is_dir(f[m.source]) # is_dir(f[m.destination]) THEN "Conflict"
    ELSE "any"

\* C9: the engine returns one action per mapping, classified by the first
\* rule that applies (source missing: Conflict; destination missing:
\* Create; kind mismatch: Conflict), and a Conflict on one mapping stops
\* neither the classification nor the application of the others.
C9_FirstRuleEachMapping ==
    dotRes.engine # "none" =>
        /\ dotRes.ok
        /\ Len(dotRes.actions) = Len(mappings)
        /\ \A i \in 1..Len(mappings) :
              /\ dotRes.actions[i].source = mappings[i].source
              /\ dotRes.actions[i].destination = mappings[i].destination
              /\ FirstRule(fsBefore, mappings[i]) # "any"
                    => dotRes.actions[i].status = FirstRule(fsBefore, mappings[i])
              /\ (FirstRule(fsBefore, mappings[i]) = "Create"
                     /\ ~dotRes.dry_run /\ dotRes.engine # "domain_analyze")
                    => exists(fs[mappings[i].destination])

\* C10: for a mapping whose source and destination are both regular files,
\* the status is UpToDate when their bytes are identical and Update when
\* they differ, whatever the sizes and modification times.
C10_BytesDecide ==
    (dotRes.engine # "none" /\ dotRes.ok) =>
        \A i \in 1..Len(dotRes.actions) :
            LET src == fsBefore[mappings[i].source]
                dst == fsBefore[mappings[i].destination]
            IN  (is_file(src) /\ is_file(dst)) =>
                    dotRes.actions[i].status =
                        IF src.bytes = dst.bytes THEN "UpToDate" ELSE "Update"

\* C11: with dry_run = false, apply_dotfiles writes the destination of a
\* mapping only if the mapping was classified Create or Update; with
\* dry_run = true no destination is touched and the returned actions are
\* those of the analysis.
C11_WritesOnlyCreateUpdate ==
    (dotRes.engine \in {"domain_apply", "core_apply"} /\ dotRes.ok) =>
        IF dotRes.dry_run
        THEN /\ fs = fsBefore
             /\ dotRes.engine = "domain_apply"
                   => dotRes.actions = analyze_dotfiles(fsBefore, mappings)
        ELSE \A i \in 1..Len(mappings) :
                fs[mappings[i].destination] # fsBefore[mappings[i].destination]
                    => dotRes.actions[i].status \in {"Create", "Update"}

\* C12: for a mapping whose source and destination are both directories,
\* the status is UpToDate exactly when every regular file under the source
\* is at the same relative path under the destination with the same
\* content, and Update otherwise.
C12_DirsInSync ==
    (dotRes.engine # "none" /\ dotRes.ok) =>
        \A i \in 1..Len(dotRes.actions) :
            LET src == fsBefore[mappings[i].source]
                dst == fsBefore[mappings[i].destination]
            IN  (is_dir(src) /\ is_dir(dst)) =>
                    dotRes.actions[i].status =
                        IF \A f \in src.files : f \in dst.files
                        THEN "UpToDate" ELSE "Update"

\* The status of mapping m on filesystem f by the rules of the
\* classification: the first rule that applies, else the comparison of the
\* contents.
RuleStatus(f, m) ==
    LET src == f[m.source]
        dst == f[m.destination]
    IN  IF FirstRule(f, m) # "any" THEN FirstRule(f, m)
        ELSE IF is_dir(src)
        THEN IF \A g \in src.files : g \in dst.files THEN "UpToDate" ELSE "Update"
        ELSE IF src.bytes = dst.bytes THEN "UpToDate" ELSE "Update"

\* C13: has_actionable_dotfiles returns true exactly when a mapping would
\* be classified Create, Update or Conflict (a missing source is a
\* Conflict) on the same filesystem, and false exactly when every mapping is
\* UpToDate.
C13_ActionableIffNotUpToDate ==
    dotRes.engine \in {"domain_has", "core_has"} =>
        dotRes.has =
            IF \E i \in 1..Len(mappings) :
                  RuleStatus(fsBefore, mappings[i]) \in {"Create", "Update", "Conflict"}
            THEN "true" ELSE "false"

\* C14: when analyze_system calls plan_package_actions, every key of
\* config.packages that is installed is in state.managed, and if the seeding
\* added a name the state files hold the seeded state.
C14_SeededBeforePlanning ==
    (cmd = "apply" /\ pc = "removals" /\ planInput.valid) =>
        /\ \A p \in desired :
              CountsAsInstalled(planInput.installed, p)
                  => p \in Range(planInput.state.managed)
        /\ planInput.state.managed # LoadFile(diskAtStart.managed, <<>>)
              => disk = PackageState_save(planInput.state)

\* C15: handle_removals drops names from state.managed and writes the state
\* files only when the package manager removed the planned batch; when the
\* removal fails, the prompt is declined or dry_run is set, it leaves
\* state.managed and the state files as they were.
C15_RemovalGuardsManaged ==
    [][(pc = "removals" /\ pc' = "packages") =>
          /\ (state' # state \/ disk' # disk)
                => (/\ ~dry_run
                    /\ RemoveNames(actions) # {}
                    /\ host' = host \ RemoveNames(actions)
                    /\ host' # host)
          /\ (dry_run \/ host' = host) => (state' = state /\ disk' = disk)]_vars

\* handle_removals has run: the planned names are off the host, out of
\* managed, and the state files hold the new list.
C15_Witness ==
    /\ cmd = "apply" /\ pc = "packages"
    /\ RemoveNames(actions) # {}
    /\ RemoveNames(actions) \cap host = {}
    /\ RemoveNames(actions) \cap Range(state.managed) = {}
    /\ disk = PackageState_save(state)
    /\ disk # diskAtStart

\* C16: after a non-dry-run apply run in which the install of a planned
\* package succeeded (the package is on the host when the install step
\* returns), the package is in the persisted managed list when the run ends.
C16_InstalledBecomesManaged ==
    (cmd = "apply" /\ pc = "done" /\ ~dry_run) =>
        \A p \in InstallNames(actions) :
            CountsAsInstalled(host, p) => p \in Range(disk.managed.data)

\* C17: whatever package operations of an apply run fail, the run executes
\* the dotfile synchronisation and then the system section.
C17_SectionsAlwaysRun ==
    (cmd = "apply" /\ pc = "done" /\ planInput.valid) =>
        \E i, j \in 1..Len(trace) :
            /\ i < j
            /\ trace[i] = "dotfiles_section"
            /\ trace[j] = "system_section"

\* The run ended after a repository install that failed: the package is
\* still missing, and both sections were executed.
C17_Witness ==
    /\ cmd = "apply" /\ pc = "done" /\ ~dry_run /\ ~clean
    /\ "pm_install_repo" \in Range(trace)
    /\ InstallNames(actions) \cap RepoPackages \cap host = {}
    /\ "dotfiles_section" \in Range(trace)
    /\ "system_section" \in Range(trace)

\* ---------------------------------------------------------------------
\* C18: when the analysis phase of an apply run fails (configuration load,
\* state load, upgrade count or planning), the run ends there: no package
\* is installed, removed or updated, no dotfile is written and no service
\* or environment setting is changed.
AfterAnalysisEvents ==
    {"prompt_remove", "pm_remove", "prompt_aur", "pm_install_repo",
     "pm_install_aur", "pm_update_repo", "pm_update_aur",
     "dotfiles_section", "dot_write", "system_section", "services",
     "env_write"}

C18_AnalysisFailureAborts ==
    (cmd = "apply" /\ pc = "done" /\ ~planInput.valid) =>
        Range(trace) \cap AfterAnalysisEvents = {}

\* An apply run whose analysis failed although the configuration asked for
\* a package that is not installed, and which left the host alone.
C18_Witness ==
    /\ cmd = "apply" /\ pc = "done" /\ ~dry_run
    /\ ~planInput.valid
    /\ desired \ host # {}
    /\ Range(trace) \cap AfterAnalysisEvents = {}

\* ---------------------------------------------------------------------
\* C19: an apply run started with the non-interactive flag issues no
\* confirmation prompt, neither for the planned removals nor for the AUR
\* installs and updates.
C19_NonInteractiveNoPrompt ==
    (cmd = "apply" /\ non_interactive) =>
        Range(trace) \cap {"prompt_remove", "prompt_aur"} = {}

\* ---------------------------------------------------------------------
\* C20: for every Config c that parse produces, parsing the text that
\* optimize_config writes for c gives a Config with the same package names,
\* the same group names and the same global environment entries as c.
C20_CleanRoundTrip ==
    cpc = "reparsed" =>
        /\ DOMAIN reread.packages = DOMAIN cleaned.packages
        /\ Range(reread.groups) = Range(cleaned.groups)
        /\ reread.env_vars = cleaned.env_vars

\* ---------------------------------------------------------------------
\* C21: a bare-name section opened by `@packages` or `@pkgs` ends at the
\* next line that starts with `@`, `@env` and `@group` included: a line
\* that is no directive is a package name only if no `@`-line came since
\* the section was opened.
\* The package names of the lines from the i-th on when every `@`-line
\* other than `@packages` and `@pkgs` ends the section.
RECURSIVE SectionNames(_, _, _)
SectionNames(ls, i, open) ==
    IF i > Len(ls) THEN {}
    ELSE LET line == trim(ls[i])
         IN  IF line = <<>> \/ starts_with(line, <<"#">>)
             THEN SectionNames(ls, i + 1, open)
             ELSE IF line = Kw.packages \/ line = Kw.pkgs
             THEN SectionNames(ls, i + 1, TRUE)
             ELSE IF starts_with(line, Kw.package)
             THEN {trim(strip_prefix(line, Kw.package))}
                  \cup SectionNames(ls, i + 1, FALSE)
             ELSE IF starts_with(line, Kw.pkg)
             THEN {trim(strip_prefix(line, Kw.pkg))}
                  \cup SectionNames(ls, i + 1, FALSE)
             ELSE IF starts_with(line, <<"@">>)
             THEN SectionNames(ls, i + 1, FALSE)
             ELSE IF starts_with(line, <<":">>)
             THEN SectionNames(ls, i + 1, open)
             ELSE (IF open THEN {line} ELSE {})
                  \cup SectionNames(ls, i + 1, open)

C21_SectionEndsAtAtLine ==
    cpc \in {"cleaned", "write_failed", "reparsed"} =>
        DOMAIN cleaned.packages = SectionNames(lines(original), 1, FALSE)

\* ---------------------------------------------------------------------
\* C30: within one document every `@package`/`@pkg` line and every bare
\* name of an `@packages` section inserts a fresh empty entry for its
\* name, so the last declaration of a name alone determines its entry: the
\* directives attached to an earlier declaration are discarded, and a `:`
\* directive read while no package block is open changes nothing.
IsPkgDecl(line) == starts_with(line, Kw.package) \/ starts_with(line, Kw.pkg)

\* <<name>> when the i-th line declares a package, <<>> when it does not.
DeclaredAt(ls, i) ==
    LET line == trim(ls[i])
    IN  IF IsPkgDecl(line)
        THEN <<trim(strip_prefix(line, IF starts_with(line, Kw.package)
                                       THEN Kw.package ELSE Kw.pkg))>>
        ELSE IF /\ line # <<>>
                /\ Head(line) \notin {"#", "@", ":"}
                /\ \E j \in 1..(i - 1) :
                      /\ trim(ls[j]) \in {Kw.packages, Kw.pkgs}
                      /\ \A m \in (j + 1)..(i - 1) : ~IsPkgDecl(trim(ls[m]))
        THEN <<line>>
        ELSE <<>>

\* The entry the last declaration of name gives: empty for a bare name,
\* and for a `@pkg` line what the line and the directives of its block,
\* parsed on their own, give.
LastDeclEntry(ls, name) ==
    LET k == CHOOSE i \in 1..Len(ls) :
                 /\ DeclaredAt(ls, i) = <<name>>
                 /\ \A j \in (i + 1)..Len(ls) : DeclaredAt(ls, j) # <<name>>
        closers == {e \in (k + 1)..Len(ls) :
                       \/ IsPkgDecl(trim(ls[e]))
                       \/ trim(ls[e]) \in {Kw.packages, Kw.pkgs}
                       \/ starts_with(trim(ls[e]), Kw.group)}
        e == IF closers = {} THEN Len(ls) + 1
             ELSE CHOOSE x \in closers : \A y \in closers : x <= y
    IN  IF IsPkgDecl(trim(ls[k]))
        THEN Config_parse(join(SubSeq(ls, k, e - 1), <<"\n">>)).packages[name]
        ELSE Package_new

C22_AdoptAllAccepted ==
    cmd = "adopt" =>
        /\ (args = <<"--all">> =>
               command = [kind |-> "Adopt", items |-> <<>>, all |-> TRUE])
        /\ (command.kind = "Err" => args = <<>>)

\* ---------------------------------------------------------------------
\* C23: adopt adds to state.managed exactly the targets that are installed
\* and not yet managed, skips the targets that are not installed, leaves
\* untracked and hidden as they were, calls no package-manager install or
\* remove, and saves the resulting state.  The targets are the items, or
\* with --all the packages of the configuration; the run is one in which
\* the configuration, the state and the installed set could be read and
\* the state written.
AdoptTargets ==
    IF command.all THEN desired ELSE Range(command.items)

StepOf(event) ==
    CASE event = "pm_remove"       -> 1
      [] event = "pm_install_repo" -> 2
      [] event = "pm_install_aur"  -> 3
      [] event = "pm_update_aur"   -> 4
      [] event = "pm_update_repo"  -> 5
      [] event = "dot_write"       -> 6
      [] event = "services"        -> 7
      [] event = "env_write"       -> 8
      [] OTHER                     -> 0

C24_ExternalActionsInOrder ==
    (cmd = "apply" /\ ~dry_run) =>
        /\ \A i, j \in 1..Len(trace) :
              (i < j /\ StepOf(trace[i]) > 0 /\ StepOf(trace[j]) > 0)
                  => StepOf(trace[i]) < StepOf(trace[j])
        /\ (pc \in {"analyze", "removals"} =>
               \A i \in 1..Len(trace) : StepOf(trace[i]) = 0)

\* A finished run that removed, installed, updated, wrote a dotfile and
\* changed the system settings.
C24_Witness ==
    /\ cmd = "apply" /\ ~dry_run /\ pc = "done"
    /\ {"pm_remove", "pm_install_repo", "pm_update_repo", "dot_write"}
           \subseteq Range(trace)
    /\ Range(trace) \cap {"services", "env_write"} # {}

\* ---------------------------------------------------------------------
\* C25: analyze_system goes on to the seeding and the planning, or returns
\* an error, only after the four parallel reads (upgrade count, config
\* load, state load, cache warm-up) are over: the error of a read that
\* failed is surfaced after the other threads have been joined.
C25_AllJoinedBeforeReturn ==
    (cmd = "apply" /\ pc # "analyze") =>
        joined_handles = {"count", "state", "config", "warm"}

IsNetworkError(r) ==
    /\ ~r.ok
    /\ \E i \in 1..Len(r.msg) :
          r.msg[i] \in {"Connection reset by peer", "error sending request",
                        "error trying to connect", "os error 104"}

C27_BoundedRetry ==
    (rpc \in {"call", "sleep", "returned"}) =>
        /\ Len(results) <= max_retries + 1
        /\ \A i \in 1..Len(results) :
              (i < Len(results) \/ rpc # "returned") => IsNetworkError(results[i])
        /\ rpc = "returned" => returned = results[Len(results)]
        /\ Len(delays) = IF rpc = "call" THEN Len(results) ELSE Len(results) - 1
        /\ \A k \in 1..Len(delays) : delays[k] = 2 ^ (k - 1)

\* The operation failed twice with a network error, retry_command slept
\* 1 s and 2 s, and the third invocation returned Ok.
C27_Witness ==
    /\ rpc = "returned" /\ returned.ok
    /\ Len(results) = 3 /\ delays = <<1, 2>>

\* ---------------------------------------------------------------------
\* C28: in the load chain of core/config.rs the main document has the
\* highest priority: when the load succeeds and the main document declares
\* the package and the global variable, the merged Config holds the main
\* document's package entry and the main document's value, whatever the
\* host and the group documents declare.
C28_MainWins ==
    (/\ lpc = "with_pest_done" /\ loadResult = "Ok"
     /\ docs["main"].status = "ok"
     /\ DocPackage \in DOMAIN docs["main"].config.packages) =>
        /\ config.packages[DocPackage] = PackageIn("main")
        /\ config.env_vars[DocEnvKey] = "main"

\* ---------------------------------------------------------------------
\* C29: the action list plan_package_actions returns holds no name in
\* both an Install and a Remove action, and holds no action twice.
C29_PlanConsistent ==
    pc = "planned" =>
        /\ InstallNames(actions) \cap RemoveNames(actions) = {}
        /\ \A i, j \in 1..Len(actions) : actions[i] = actions[j] => i = j

\* A plan with an install and a removal, from a state that manages the
\* name to install as well as the name to remove.
C29_Witness ==
    /\ pc = "planned"
    /\ RemoveNames(actions) # {}
    /\ \E p \in InstallNames(actions) : is_managed(state, p)

====
